---- MODULE Spec2Model ----
(***************************************************************************)
(* History capture engine of blurberry: HistoryTracker (visit lifecycle,   *)
(* interaction batching, throttled captures, embedding generation),        *)
(* HistoryDatabase (rows, workflow cache and the database file, from its   *)
(* construction to close()), VectorStore (ANN index and its file) and      *)
(* WorkflowAnalyzer (analyses), with the tab map of the Window, as a state *)
(* machine.                                                                *)
(* One action per handler, timer callback or continuation after an await.  *)
(***************************************************************************)
EXTENDS Integers, Sequences, FiniteSets, TLC

(***************************************************************************)
(* Bounds of the model.                                                    *)
(***************************************************************************)
MaxVisits == 2
MaxSessions == 1
MaxSessionRows == 3
MaxInteractions == 2
MaxBatchInteractions == 104
MaxElapsed == 1500
MaxBatchElapsed == 2000
MaxTimerElapsed == 2500
MaxLatencyElapsed == 4000
MaxInflight == 2
MaxTabEvents == 3
MaxDays == 1
MaxStoreRows == 2
MaxGenerations == 2
MaxIds == 3

(***************************************************************************)
(* Program constants.                                                      *)
(***************************************************************************)
BATCH_INTERVAL == 2000
SCREENSHOT_THROTTLE == 30000
SNAPSHOT_THROTTLE == 60000
BATCH_THRESHOLD == 100
SCREENSHOT_DELAY == 1000
SNAPSHOT_DELAY == 1500
EMBEDDING_DELAY == 2000
HTML_CAP == 50000
TEXT_CAP == 8000
MAX_ELEMENTS == 10000
DEFAULT_K == 3
DIMENSION == 1536
DAY_MS == 86400000
DEFAULT_LIMIT_VISITS == 50

\* null of an id column or handle (ids start at 1)
NULL == 0
\* null of page_visits.duration (a stamped duration is >= 0)
NoDuration == -1
\* undefined: a field the sender of a message left out
Undefined == -2

\* Date.now() when the tracker is constructed: later than any throttle window
\* after the epoch, so a lastScreenshot / lastSnapshot of 0 never throttles.
StartTime == 2 * SNAPSHOT_THROTTLE
TickMs == 500

(***************************************************************************)
(* Tabs and URLs.  A URL is its hostname (the labels between the dots) and *)
(* a path; new URL(url).hostname is the host field.                        *)
(***************************************************************************)
Tabs == {"t1"}
\* the tabs a window can hold, in the order of window.allTabs
AllTabs == {"t1", "t2"}
TabOrder == <<"t1", "t2">>
\* the ids a renderer can name: those of the tabs and one of no tab
TabIds == AllTabs \cup {"t9"}

ATest == <<"a", "test">>
XTest == <<"x", "test">>
SubXTest == <<"sub", "x", "test">>

UrlA1 == [host |-> ATest, path |-> "page1"]
UrlA2 == [host |-> ATest, path |-> "page2"]
UrlX == [host |-> XTest, path |-> "login"]
UrlSubX == [host |-> SubXTest, path |-> "login"]
NoUrl == [host |-> << >>, path |-> ""]
Urls == {UrlA1, UrlA2, UrlX, UrlSubX}
Domains == {XTest}

hostname(url) == url.host

\* hostname.endsWith("." + domain): the domain's labels are a proper suffix
endsWithDot(host, domain) ==
    /\ Len(host) > Len(domain)
    /\ SubSeq(host, Len(host) - Len(domain) + 1, Len(host)) = domain

\* HistorySettings.isDomainExcluded: exact or suffix match
isDomainExcluded(url, domains) ==
    \E domain \in domains :
        hostname(url) = domain \/ endsWithDot(hostname(url), domain)

VARIABLES
    now,                  \* Date.now()
    enabled,              \* HistoryTracker.enabled
    sessionId,            \* HistoryTracker.sessionId (NULL or a session id)
    pendingInteractions,  \* HistoryTracker.pendingInteractions
    batchInterval,        \* HistoryTracker.batchInterval (NULL or a timer id)
    visitTrackers,        \* HistoryTracker.visitTrackers: tab -> VisitTracker
    excludedDomains,      \* HistoryTracker.excludedDomains
    trackedTabs,          \* HistoryTracker.trackedTabs
    vectorStore,          \* HistoryTracker.vectorStore is set
    embeddingModel,       \* HistoryTracker.embeddingModel is set
    intervals,            \* running setInterval timers: [id, due]
    timeouts,             \* pending setTimeout callbacks: [kind, tab, visitId, due]
    inflight,             \* captures suspended at an await
    db,                   \* HistoryDatabase.db is set (the database is open)
    sqliteSequence,       \* largest AUTOINCREMENT id handed out, per table
    sessions,             \* table sessions
    currentSessionId,     \* HistoryDatabase.currentSessionId
    pageVisits,           \* table page_visits
    tabEvents,            \* table tab_events
    interactions,         \* table interactions
    screenshots,          \* table screenshots
    domSnapshots,         \* table dom_snapshots
    embeddings,           \* table recording the embedded visits
    scrollEvents,         \* table scroll_events
    workflowCache,        \* table workflow_cache
    initPending,          \* HistoryDatabase.initPromise has not settled yet
    dbFile,               \* the database file at dbPath: no image or one
    model,                \* WorkflowAnalyzer.model is set
    analyses,             \* analyses suspended at their generation call
    generated,            \* number of calls made to the generation capability
    index,                \* VectorStore.index: the points read from the index
                          \* file and the points added since
    indexFile,            \* the persisted index file exists
    openTabs,             \* the tabs that are open (not destroyed)
    tabsMap,              \* Window.tabsMap: its keys in insertion order
    tabUrl,               \* the URL each tab shows
    pageLoaded,           \* the tab's document finished loading
    pageScript,           \* visit id held by the tracking script of the tab's document
    accepted,             \* number of interactions pushed so far
    lastOp,               \* the last handler that ran, and what it did
    lastRequested,        \* visit -> content hash of its latest settled embedding request
    searchResult          \* what the last VectorStore.search returned

trackerVars == <<enabled, sessionId, pendingInteractions, batchInterval,
                 visitTrackers, excludedDomains, trackedTabs, vectorStore,
                 embeddingModel>>
timerVars == <<intervals, timeouts, inflight>>
dbVars == <<db, sqliteSequence, sessions, currentSessionId, pageVisits,
            tabEvents, interactions,
            screenshots, domSnapshots, embeddings>>
storeVars == <<scrollEvents, workflowCache, initPending, dbFile>>
analyzerVars == <<model, analyses, generated>>
vectorVars == <<index, indexFile, searchResult>>
browserVars == <<openTabs, tabsMap, tabUrl, pageLoaded, pageScript>>
ghostVars == <<accepted, lastOp, lastRequested>>
vars == <<now, trackerVars, timerVars, dbVars, storeVars, analyzerVars,
          vectorVars, browserVars, ghostVars>>


(***************************************************************************)
(* Map<string, VisitTracker> as a function whose domain is the key set.    *)
(***************************************************************************)
MapSet(m, k, v) == [x \in (DOMAIN m) \cup {k} |-> IF x = k THEN v ELSE m[x]]
MapDelete(m, k) == [x \in (DOMAIN m) \ {k} |-> m[x]]
EmptyMap == [x \in {} |-> NULL]

\* new HierarchicalNSW("cosine", dimension) and initIndex(10000): no point
\* read from a file, none added
EmptyIndex ==
    [dimension |-> DIMENSION, maxElements |-> MAX_ELEMENTS, loaded |-> 0,
     points |-> EmptyMap]

Min(a, b) == IF a <= b THEN a ELSE b

(***************************************************************************)
(* HistoryDatabase: each table is the sequence of its rows in insertion    *)
(* order.  An AUTOINCREMENT id is one more than the largest id the table   *)
(* ever held, which sqliteSequence keeps per table.  While db is not set a *)
(* write other than startSession and recordPageVisit returns at once;      *)
(* these two throw, which their callers test with dbThrows.                *)
(***************************************************************************)
nextId(table) == sqliteSequence[table] + 1

\* if (!this.db) throw new Error("Database not initialized")
dbThrows == ~db

sessionRow(id, t) == [id |-> id, start_time |-> t, end_time |-> NULL]

endSessionRows(rows, id, t) ==
    IF ~db THEN rows
    ELSE [i \in DOMAIN rows |->
             IF rows[i].id = id THEN [rows[i] EXCEPT !.end_time = t] ELSE rows[i]]

recordPageVisit(rows, id, session, tabId, url, title, t) ==
    Append(rows, [id |-> id, session_id |-> session, tab_id |-> tabId,
                  url |-> url, title |-> title, timestamp |-> t,
                  duration |-> NoDuration])

updatePageVisitDuration(rows, visitId, duration) ==
    IF ~db THEN rows
    ELSE [i \in DOMAIN rows |->
             IF rows[i].id = visitId THEN [rows[i] EXCEPT !.duration = duration]
             ELSE rows[i]]

recordTabEvent(rows, session, tabId, action, t) ==
    IF ~db THEN rows
    ELSE Append(rows, [session_id |-> session, tab_id |-> tabId,
                       action |-> action, timestamp |-> t])

\* one INSERT per item, in the order of the array
interactionRow(item) ==
    [visit_id |-> item.visitId, type |-> item.type, timestamp |-> item.timestamp,
     seq |-> item.seq, origin |-> item.origin, excluded |-> item.excluded]

\* db.run binds item.visitId as it came; a value that is no string, number
\* or null cannot be bound and db.run throws
bindable(item) == item.visitId # Undefined

\* the items the loop has inserted when it ends or db.run throws
inserted(items) ==
    IF \A i \in DOMAIN items : bindable(items[i]) THEN Len(items)
    ELSE (CHOOSE i \in DOMAIN items :
              /\ ~bindable(items[i])
              /\ \A j \in 1 .. (i - 1) : bindable(items[j])) - 1

\* recordInteractionsBatch throws what db.run throws
batchThrows(items) == db /\ inserted(items) < Len(items)

recordInteractionsBatch_reversed(rows, items) ==
    IF ~db THEN rows
    ELSE rows \o [i \in 1 .. Len(items) |->
                     interactionRow(items[Len(items) + 1 - i])]

recordInteractionsBatch(rows, items) ==
    IF ~db THEN rows
    ELSE rows \o [i \in 1 .. inserted(items) |-> interactionRow(items[i])]

recordScreenshot(rows, visitId, imageData, t) ==
    IF ~db THEN rows
    ELSE Append(rows, [visit_id |-> visitId, image_data |-> imageData,
                       timestamp |-> t])

recordDOMSnapshot(rows, visitId, html, t) ==
    IF ~db THEN rows
    ELSE Append(rows, [visit_id |-> visitId, html |-> html, timestamp |-> t])

recordScrollEvent(rows, visitId, t) ==
    IF ~db THEN rows
    ELSE Append(rows, [visit_id |-> visitId, timestamp |-> t])

\* ORDER BY timestamp ASC: the row with the least timestamp first, rows of
\* one timestamp in the order of their insertion
RECURSIVE orderByTimestamp(_)
orderByTimestamp(rows) ==
    IF rows = << >> THEN << >>
    ELSE LET first == CHOOSE i \in DOMAIN rows :
                          \A j \in DOMAIN rows :
                              \/ rows[i].timestamp < rows[j].timestamp
                              \/ rows[i].timestamp = rows[j].timestamp /\ i <= j
             rest == [k \in 1 .. Len(rows) - 1 |->
                         IF k < first THEN rows[k] ELSE rows[k + 1]]
         IN <<rows[first]>> \o orderByTimestamp(rest)

\* getVisitInteractions
getVisitInteractions(rows, visitId) ==
    IF ~db THEN << >>
    ELSE orderByTimestamp(SelectSeq(rows, LAMBDA r : r.visit_id = visitId))

\* DELETE FROM t WHERE visit_id IN (SELECT id FROM page_visits WHERE
\* timestamp < cutoff)
deleteOfOldVisits(rows, cutoff) ==
    LET old == {pageVisits[i].id : i \in {j \in DOMAIN pageVisits :
                                             pageVisits[j].timestamp < cutoff}}
    IN SelectSeq(rows, LAMBDA r : r.visit_id \notin old)

\* deleteOldHistory: the seven DELETE statements, in their order
deleteOldHistory(olderThanDays) ==
    IF ~db
    THEN UNCHANGED <<scrollEvents, screenshots, domSnapshots, interactions,
                     pageVisits, tabEvents, sessions>>
    ELSE LET cutoffTime == now - olderThanDays * DAY_MS
         IN /\ scrollEvents' = deleteOfOldVisits(scrollEvents, cutoffTime)
            /\ screenshots' = deleteOfOldVisits(screenshots, cutoffTime)
            /\ domSnapshots' = deleteOfOldVisits(domSnapshots, cutoffTime)
            /\ interactions' = deleteOfOldVisits(interactions, cutoffTime)
            /\ pageVisits' = SelectSeq(pageVisits,
                                       LAMBDA r : ~(r.timestamp < cutoffTime))
            /\ tabEvents' = SelectSeq(tabEvents,
                                      LAMBDA r : ~(r.timestamp < cutoffTime))
            /\ sessions' = SelectSeq(sessions,
                                     LAMBDA r : ~(r.start_time < cutoffTime))

\* the first n rows
limitRows(rows, n) == SubSeq(rows, 1, Min(Len(rows), n))

\* ORDER BY timestamp DESC
orderByTimestampDesc(rows) ==
    LET asc == orderByTimestamp(rows)
    IN [i \in DOMAIN asc |-> asc[Len(asc) + 1 - i]]

\* getRecentHistory(limit)
getRecentHistory(limit) ==
    IF ~db THEN << >> ELSE limitRows(orderByTimestampDesc(pageVisits), limit)

\* rowToObject: the first row or null; a row or null is the sequence of at
\* most one row
rowToObject(rows) == limitRows(rows, 1)

\* {} as Session: an object none of whose fields is set
EmptySession == [id |-> NULL, start_time |-> NULL, end_time |-> NULL]

\* getSessionHistory(sessionId)
getSessionHistory(id) ==
    IF ~db
    THEN [session |-> <<EmptySession>>, visits |-> << >>, tabEvents |-> << >>]
    ELSE [session |-> rowToObject(SelectSeq(sessions, LAMBDA r : r.id = id)),
          visits |-> orderByTimestamp(
                         SelectSeq(pageVisits, LAMBDA r : r.session_id = id)),
          tabEvents |-> orderByTimestamp(
                            SelectSeq(tabEvents, LAMBDA r : r.session_id = id))]

\* getCurrentSession
getCurrentSession ==
    IF ~db \/ currentSessionId = NULL THEN << >>
    ELSE rowToObject(SelectSeq(sessions, LAMBDA r : r.id = currentSessionId))

\* getVisitCount
getVisitCount == IF ~db THEN 0 ELSE Len(pageVisits)

\* objects the generation capability gives, which fit the WorkflowSchema
SignInFlow == [workflow_name |-> "sign in", automation_potential |-> "high"]
SearchFlow == [workflow_name |-> "search", automation_potential |-> "low"]
Workflows == {SignInFlow, SearchFlow}

\* JSON.stringify of a workflow: the text, token by token
stringify(w) ==
    <<"{", "workflow_name", ":", w.workflow_name, ",",
      "automation_potential", ":", w.automation_potential, "}">>

\* JSON.parse of a text: the object, or no object when the text is not the
\* text of one
parse(text) ==
    IF /\ Len(text) = 9
       /\ <<text[1], text[2], text[3], text[5], text[6], text[7], text[9]>>
              = <<"{", "workflow_name", ":", ",", "automation_potential", ":", "}">>
    THEN <<[workflow_name |-> text[4], automation_potential |-> text[8]]>>
    ELSE << >>

\* cacheWorkflow
cacheWorkflow(rows, id, data, t) ==
    IF ~db THEN rows
    ELSE Append(rows, [session_id |-> id, workflow_data |-> data, created_at |-> t])

\* ORDER BY created_at ASC LIMIT 1
getWorkflowCache_oldest(id) ==
    LET own == {i \in DOMAIN workflowCache : workflowCache[i].session_id = id}
        oldest == {i \in own : \A j \in own :
                      workflowCache[i].created_at <= workflowCache[j].created_at}
    IN IF ~db \/ own = {} THEN {<< >>}
       ELSE {<<workflowCache[i]>> : i \in oldest}

\* getWorkflowCache: ORDER BY created_at DESC LIMIT 1, a row of the session
\* with the newest created_at, or null.  Which of the rows of one instant
\* comes first is left open by the query, so this is the set of the results
\* the call can give.
getWorkflowCache(id) ==
    LET own == {i \in DOMAIN workflowCache : workflowCache[i].session_id = id}
        newest == {i \in own : \A j \in own :
                      workflowCache[j].created_at <= workflowCache[i].created_at}
    IN IF ~db \/ own = {} THEN {<< >>}
       ELSE {<<workflowCache[i]>> : i \in newest}

\* the tables of the database
tables ==
    [sqlite_sequence |-> sqliteSequence, sessions |-> sessions,
     page_visits |-> pageVisits, tab_events |-> tabEvents,
     interactions |-> interactions, screenshots |-> screenshots,
     dom_snapshots |-> domSnapshots, scroll_events |-> scrollEvents,
     embeddings |-> embeddings, workflow_cache |-> workflowCache]

\* save() at the end of a call: db.export() written to dbPath, or nothing
\* while db is not set
save == dbFile' = IF db THEN <<tables'>> ELSE dbFile

\* startSession once db is set: the row, and currentSessionId
startSession ==
    LET id == nextId("sessions")
    IN /\ sessions' = Append(sessions, sessionRow(id, now))
       /\ sqliteSequence' = [sqliteSequence EXCEPT !.sessions = id]
       /\ currentSessionId' = id

\* endSession
endSession(id) ==
    /\ sessions' = endSessionRows(sessions, id, now)
    /\ currentSessionId' = IF db /\ currentSessionId = id THEN NULL
                           ELSE currentSessionId

(***************************************************************************)
(* The state after new HistoryDatabase(), new VectorStore() and            *)
(* new HistoryTracker(window, database), with the window's tabs open on    *)
(* blank documents.  The index file of an earlier run, when there is one,  *)
(* holds the vectors of that run's visits.                                 *)
(***************************************************************************)
NoOp == [op |-> "none"]
Other(name) == [op |-> name]

\* visits is the id of the last visit of earlier runs, tabs the open tabs
FreshWith(visits, tabs) ==
    /\ now = StartTime
    /\ enabled = TRUE
    /\ sessionId = NULL
    /\ pendingInteractions = << >>
    /\ batchInterval = NULL
    /\ visitTrackers = EmptyMap
    /\ excludedDomains = {}
    /\ trackedTabs = {}
    /\ vectorStore = FALSE
    /\ embeddingModel = FALSE
    /\ intervals = {}
    /\ timeouts = {}
    /\ inflight = {}
    /\ sqliteSequence = [sessions |-> 0, page_visits |-> visits]
    /\ sessions = << >>
    /\ currentSessionId = NULL
    /\ pageVisits = << >>
    /\ tabEvents = << >>
    /\ interactions = << >>
    /\ screenshots = << >>
    /\ domSnapshots = << >>
    /\ embeddings = << >>
    /\ scrollEvents = << >>
    /\ workflowCache = << >>
    /\ dbFile = << >>
    /\ analyses = {}
    /\ generated = 0
    /\ openTabs = tabs
    /\ tabsMap = SelectSeq(TabOrder, LAMBDA t : t \in tabs)
    /\ tabUrl = [t \in AllTabs |-> NoUrl]
    /\ pageLoaded = [t \in AllTabs |-> TRUE]
    /\ pageScript = [t \in AllTabs |-> NULL]
    /\ accepted = 0
    /\ lastOp = NoOp
    /\ lastRequested = EmptyMap
    /\ searchResult = << >>

FreshFrom(visits) == FreshWith(visits, Tabs)

Fresh == FreshFrom(0)

\* the database is open (database.ready() resolved), no API key is set for
\* the analyzer and there is no index file
Init ==
    /\ Fresh
    /\ db = TRUE
    /\ initPending = FALSE
    /\ model = FALSE
    /\ index = EmptyIndex
    /\ indexFile = FALSE


(***************************************************************************)
(* HistoryTracker: tracking lifecycle.                                     *)
(***************************************************************************)
tracking == enabled /\ sessionId # NULL

\* setupTabListeners for each tab of window.allTabs, in the array's order:
\* a tab not yet in trackedTabs is added and gets its "created" event
RECURSIVE setupAll(_, _, _, _)
setupAll(order, tracked, events, session) ==
    IF order = << >> THEN [tracked |-> tracked, events |-> events]
    ELSE IF Head(order) \notin openTabs \/ Head(order) \in tracked
         THEN setupAll(Tail(order), tracked, events, session)
         ELSE setupAll(Tail(order), tracked \cup {Head(order)},
                       recordTabEvent(events, session, Head(order), "created", now),
                       session)

flushQueue_keep(queue) == queue

\* this.pendingInteractions = [] once the batch is written; the catch of a
\* throwing recordInteractionsBatch leaves the queue as it is
flushQueue(queue) == IF batchThrows(queue) THEN queue ELSE << >>

flushRows_dropFirst(rows, queue) ==
    IF queue = << >> THEN rows ELSE recordInteractionsBatch(rows, Tail(queue))

\* flushInteractions: nothing to do on an empty queue, else write the batch
\* and empty the queue
flushRows(rows, queue) ==
    IF queue = << >> THEN rows ELSE recordInteractionsBatch(rows, queue)

flushInteractions ==
    /\ interactions' = flushRows(interactions, pendingInteractions)
    /\ pendingInteractions' = flushQueue(pendingInteractions)

\* start() throws what startSession throws
startThrows == enabled /\ dbThrows

start ==
    IF ~enabled \/ startThrows
    THEN UNCHANGED <<trackerVars, timerVars, dbVars>>
    ELSE LET id == nextId("sessions")
             setup == setupAll(tabsMap, trackedTabs, tabEvents, id)
         IN /\ startSession
            /\ sessionId' = id
            /\ batchInterval' = id
            /\ intervals' = intervals \cup {[id |-> id, due |-> now + BATCH_INTERVAL]}
            /\ trackedTabs' = setup.tracked
            /\ tabEvents' = setup.events
            /\ UNCHANGED <<enabled, pendingInteractions, visitTrackers,
                           excludedDomains, vectorStore, embeddingModel,
                           timeouts, inflight, db, pageVisits, interactions,
                           screenshots, domSnapshots, embeddings>>

stop ==
    /\ IF sessionId # NULL
       THEN /\ flushInteractions
            /\ endSession(sessionId)
            /\ sessionId' = NULL
       ELSE UNCHANGED <<interactions, pendingInteractions, sessions,
                        currentSessionId, sessionId>>
    /\ IF batchInterval # NULL
       THEN /\ intervals' = {iv \in intervals : iv.id # batchInterval}
            /\ batchInterval' = NULL
       ELSE UNCHANGED <<intervals, batchInterval>>
    /\ UNCHANGED <<visitTrackers, excludedDomains, trackedTabs, vectorStore,
                   embeddingModel, timeouts, inflight, db, sqliteSequence,
                   pageVisits, tabEvents, screenshots, domSnapshots, embeddings>>

setEnabled(b) ==
    IF ~b /\ sessionId # NULL
    THEN enabled' = b /\ stop
    ELSE enabled' = b /\ UNCHANGED <<sessionId, pendingInteractions, batchInterval,
                                     visitTrackers, excludedDomains, trackedTabs,
                                     vectorStore, embeddingModel, timerVars, dbVars>>

addExcludedDomain(d) ==
    /\ excludedDomains' = excludedDomains \cup {d}
    /\ UNCHANGED <<enabled, sessionId, pendingInteractions, batchInterval,
                   visitTrackers, trackedTabs, vectorStore, embeddingModel,
                   timerVars, dbVars>>

removeExcludedDomain(d) ==
    /\ excludedDomains' = excludedDomains \ {d}
    /\ UNCHANGED <<enabled, sessionId, pendingInteractions, batchInterval,
                   visitTrackers, trackedTabs, vectorStore, embeddingModel,
                   timerVars, dbVars>>

(***************************************************************************)
(* HistoryTracker: navigation.                                             *)
(***************************************************************************)
\* isExcludedDomain: the hostname is a member of the Set
isExcludedDomain(url) == hostname(url) \in excludedDomains

isDuplicate_never(t, url) == FALSE

\* a tracker exists for the tab and holds the same URL
isDuplicate(t, url) == t \in DOMAIN visitTrackers /\ visitTrackers[t].url = url

newTracker_keepCaptures(t, visitId, url) ==
    [visitId |-> visitId, startTime |-> now,
     lastScreenshot |-> IF t \in DOMAIN visitTrackers
                        THEN visitTrackers[t].lastScreenshot ELSE 0,
     lastSnapshot |-> IF t \in DOMAIN visitTrackers
                      THEN visitTrackers[t].lastSnapshot ELSE 0,
     url |-> url]

newTracker(t, visitId, url) ==
    [visitId |-> visitId, startTime |-> now, lastScreenshot |-> 0,
     lastSnapshot |-> 0, url |-> url]

scheduled_snapshotFirst(t, visitId) ==
    {[kind |-> "snapshot", tab |-> t, visitId |-> visitId,
      due |-> now + SCREENSHOT_DELAY],
     [kind |-> "screenshot", tab |-> t, visitId |-> visitId,
      due |-> now + SNAPSHOT_DELAY],
     [kind |-> "embedding", tab |-> t, visitId |-> visitId,
      due |-> now + EMBEDDING_DELAY]}

\* the three one-shot captures of a new visit
scheduled(t, visitId) ==
    {[kind |-> "screenshot", tab |-> t, visitId |-> visitId,
      due |-> now + SCREENSHOT_DELAY],
     [kind |-> "snapshot", tab |-> t, visitId |-> visitId,
      due |-> now + SNAPSHOT_DELAY],
     [kind |-> "embedding", tab |-> t, visitId |-> visitId,
      due |-> now + EMBEDDING_DELAY]}

recordsVisit_whenIdle(t, url) ==
    tracking /\ ~isExcludedDomain(url) /\ ~isDuplicate(t, url) /\ inflight = {}

\* handleNavigation goes on to record a visit
recordsVisit(t, url) == tracking /\ ~isExcludedDomain(url) /\ ~isDuplicate(t, url)

\* handleNavigation throws what recordPageVisit throws
navigationThrows(t, url) == recordsVisit(t, url) /\ dbThrows

\* tab.title || "Loading...": the tab's document has no title yet
handleNavigation(t, url) ==
    IF ~recordsVisit(t, url) \/ navigationThrows(t, url)
    THEN UNCHANGED <<trackerVars, timerVars, dbVars>>
    ELSE LET ended == IF t \in DOMAIN visitTrackers
                      THEN updatePageVisitDuration(pageVisits,
                               visitTrackers[t].visitId,
                               now - visitTrackers[t].startTime)
                      ELSE pageVisits
             visitId == nextId("page_visits")
         IN /\ pageVisits' = recordPageVisit(ended, visitId, sessionId, t, url,
                                             "Loading...", now)
            /\ sqliteSequence' = [sqliteSequence EXCEPT !.page_visits = visitId]
            /\ visitTrackers' = MapSet(visitTrackers, t, newTracker(t, visitId, url))
            /\ timeouts' = timeouts \cup scheduled(t, visitId)
            /\ UNCHANGED <<enabled, sessionId, pendingInteractions, batchInterval,
                           excludedDomains, trackedTabs, vectorStore,
                           embeddingModel, intervals, inflight, db, sessions,
                           currentSessionId, tabEvents, interactions,
                           screenshots, domSnapshots, embeddings>>

\* handleTabSwitch
handleTabSwitch(t) ==
    IF ~tracking
    THEN UNCHANGED tabEvents
    ELSE tabEvents' = recordTabEvent(tabEvents, sessionId, t, "switched", now)

handleTabClose(t) ==
    IF ~tracking
    THEN UNCHANGED <<trackerVars, timerVars, dbVars>>
    ELSE /\ tabEvents' = recordTabEvent(tabEvents, sessionId, t, "closed", now)
         /\ IF t \in DOMAIN visitTrackers
            THEN /\ pageVisits' = updatePageVisitDuration(pageVisits,
                                      visitTrackers[t].visitId,
                                      now - visitTrackers[t].startTime)
                 /\ visitTrackers' = MapDelete(visitTrackers, t)
            ELSE UNCHANGED <<pageVisits, visitTrackers>>
         /\ trackedTabs' = trackedTabs \ {t}
         /\ UNCHANGED <<enabled, sessionId, pendingInteractions, batchInterval,
                        excludedDomains, vectorStore, embeddingModel, timerVars,
                        db, sqliteSequence, sessions, currentSessionId,
                        interactions, screenshots, domSnapshots, embeddings>>

\* getCurrentVisitId(tabId): `?.visitId || null`
getCurrentVisitId(t) ==
    IF t \in DOMAIN visitTrackers /\ visitTrackers[t].visitId # 0
    THEN visitTrackers[t].visitId
    ELSE NULL

(***************************************************************************)
(* HistoryTracker: interaction batching.                                   *)
(***************************************************************************)
overThreshold_never(queue) == FALSE

\* the buffer is too large
overThreshold(queue) == Len(queue) > BATCH_THRESHOLD

\* recordInteraction: push, then flush when the buffer is too large
recordInteraction(item) ==
    IF ~enabled
    THEN UNCHANGED <<pendingInteractions, interactions, accepted>>
    ELSE LET queue == Append(pendingInteractions, item)
         IN /\ accepted' = accepted + 1
            /\ IF overThreshold(queue)
               THEN /\ interactions' = flushRows(interactions, queue)
                    /\ pendingInteractions' = flushQueue(queue)
               ELSE /\ pendingInteractions' = queue
                    /\ UNCHANGED interactions

\* what a tracking script sends.  Beside the fields of the message: seq
\* numbers the interactions in the order they are sent, origin is the URL of
\* the page the user acted on, excluded whether the tracker excludes that URL
interaction(visitId, origin) ==
    [visitId |-> visitId, type |-> "click", timestamp |-> now,
     seq |-> accepted + 1, origin |-> origin,
     excluded |-> isExcludedDomain(origin)]

(***************************************************************************)
(* HistoryTracker: throttled captures.  A capture runs up to its await     *)
(* (captureStart) and resumes when the tab's call settles (captureDone).   *)
(***************************************************************************)
\* tab.getTabHtml(): the document of the page, tags and text
pageHtml(url) == <<"<p>", url.path, "</p>">>

\* tab.screenshot() then image.toDataURL(): the picture of the page
screenshot(url) == <<"data:image/png", url.path>>

\* str.substring(0, n)
substring(str, n) == SubSeq(str, 1, Min(Len(str), n))

\* tells apart the calls that are suspended at the same time
freshId ==
    CHOOSE n \in 1 .. (Cardinality(inflight) + 1) : \A c \in inflight : c.id # n

lastCapture(tracker, kind) ==
    IF kind = "screenshot" THEN tracker.lastScreenshot ELSE tracker.lastSnapshot

throttle(kind) ==
    IF kind = "screenshot" THEN SCREENSHOT_THROTTLE ELSE SNAPSHOT_THROTTLE

throttled(tracker, kind) == now - lastCapture(tracker, kind) < throttle(kind)

\* captureScreenshot / captureDOMSnapshot up to the await
captureStart(kind, t, visitId) ==
    IF t \notin DOMAIN visitTrackers \/ throttled(visitTrackers[t], kind)
    THEN UNCHANGED inflight
    ELSE inflight' = inflight \cup
             {[id |-> freshId, kind |-> kind, tab |-> t, visitId |-> visitId,
               started |-> now, tracker |-> visitTrackers[t].visitId,
               page |-> tabUrl[t]]}

\* the visit a capture's row is stored under: the visitId argument
rowVisit(c) == c.visitId

\* tracker.lastScreenshot = now, on the tracker object read before the await
stampTracker(c) ==
    IF c.tab \in DOMAIN visitTrackers /\ visitTrackers[c.tab].visitId = c.tracker
    THEN IF c.kind = "screenshot"
         THEN [visitTrackers EXCEPT ![c.tab].lastScreenshot = c.started]
         ELSE [visitTrackers EXCEPT ![c.tab].lastSnapshot = c.started]
    ELSE visitTrackers

\* captureScreenshot / captureDOMSnapshot after the await: the row and the
\* stamp when the call resolved, the catch when it rejected
captureDone(c, ok) ==
    /\ inflight' = inflight \ {c}
    /\ IF ok
       THEN /\ visitTrackers' = stampTracker(c)
            /\ IF c.kind = "screenshot"
               THEN /\ screenshots' = recordScreenshot(screenshots, rowVisit(c),
                                                       screenshot(c.page), now)
                    /\ UNCHANGED domSnapshots
               ELSE /\ domSnapshots' = recordDOMSnapshot(domSnapshots, rowVisit(c),
                                           substring(pageHtml(c.page), HTML_CAP), now)
                    /\ UNCHANGED screenshots
       ELSE UNCHANGED <<visitTrackers, screenshots, domSnapshots>>


(***************************************************************************)
(* VectorStore over the hnswlib index, which has room for MAX_ELEMENTS     *)
(* points.  The index is the number of points it read from the index file  *)
(* (labels 1 .. loaded, the visits of earlier runs, each with the vector   *)
(* LoadedVector) and the map from label to vector of the points added or   *)
(* updated since.  Vectors are unit vectors of the plane, so that the      *)
(* cosine distance of two of them is 1 minus their product.                *)
(***************************************************************************)
E1 == <<1, 0>>
E2 == <<0, 1>>
E3 == <<-1, 0>>
Vectors == {E1, E2, E3}
LoadedVector == E1

cosineDistance(a, b) == 1 - (a[1] * b[1] + a[2] * b[2])

hasPoint(idx, label) == label \in 1 .. idx.loaded \/ label \in DOMAIN idx.points

\* index.getCurrentCount()
getCurrentCount(idx) ==
    idx.loaded + Cardinality({l \in DOMAIN idx.points : l > idx.loaded})

\* index.addPoint would throw: a new label and no room left
indexFull(idx, label) ==
    ~hasPoint(idx, label) /\ getCurrentCount(idx) >= idx.maxElements

\* index.addPoint: a known label is updated in place, a new one is inserted
addPoint(idx, label, vec) == [idx EXCEPT !.points = MapSet(@, label, vec)]

RECURSIVE takeSome(_, _)
takeSome(S, n) ==
    IF n <= 0 \/ S = {} THEN << >>
    ELSE LET x == CHOOSE y \in S : \A z \in S : y <= z
         IN <<x>> \o takeSome(S \ {x}, n - 1)

\* up to n labels at distance d of q: the points added since the load, then
\* the loaded ones that were not updated
atDistance(idx, q, d, n) ==
    LET added == {l \in DOMAIN idx.points : cosineDistance(idx.points[l], q) = d}
        first == 1 .. Min(idx.loaded, n + Cardinality(DOMAIN idx.points))
        loaded == IF cosineDistance(LoadedVector, q) = d
                  THEN {l \in first : l \notin DOMAIN idx.points}
                  ELSE {}
        new == takeSome(added, n)
    IN new \o takeSome(loaded, n - Len(new))

\* index.searchKnn: the k nearest labels, nearest first
searchKnn(idx, q, k) ==
    LET near == atDistance(idx, q, 0, k)
        mid == atDistance(idx, q, 1, k - Len(near))
        far == atDistance(idx, q, 2, k - Len(near) - Len(mid))
    IN near \o mid \o far

\* index.searchKnn throws on a k that exceeds maxElements
searchThrows(k) == k > MAX_ELEMENTS

search_oneMore(idx, q, k) == searchKnn(idx, q, k + 1)

\* VectorStore.search: the neighbours, or [] when searchKnn threw
search(idx, q, k) == IF searchThrows(k) THEN << >> ELSE searchKnn(idx, q, k)

\* VectorStore.addVector: addPoint and writeIndex inside try; the catch logs
\* and the promise resolves either way
addVector(visitId, embedding) ==
    IF indexFull(index, visitId)
    THEN UNCHANGED <<index, indexFile>>
    ELSE /\ index' = addPoint(index, visitId, embedding)
         /\ indexFile' = TRUE

\* what the caller of addVector gets back: the promise never rejects
addVectorOutcome(idx, visitId) == "resolved"

\* the file is deleted and the index stays as it is
clear_keepsIndex ==
    /\ indexFile' = FALSE
    /\ index' = index

\* VectorStore.clear: unlink the file if it exists, then a new index of
\* this.dimension with initIndex(10000)
clear ==
    /\ indexFile' = FALSE
    /\ index' = EmptyIndex


(***************************************************************************)
(* Page content and the embedding request.                                 *)
(***************************************************************************)
HtmlTags == {"<p>", "</p>"}
Titles == {"Title A", "Title B"}
EMBEDDING_MODEL == "text-embedding-3-small"

\* html.replace(/<[^>]*>/g, " ")
stripTags(html) == [i \in DOMAIN html |-> IF html[i] \in HtmlTags THEN " " ELSE html[i]]

updatePageVisitTitle(rows, visitId, title) ==
    [i \in DOMAIN rows |->
        IF rows[i].id = visitId THEN [rows[i] EXCEPT !.title = title] ELSE rows[i]]

hasEmbedding(rows, visitId) == \E i \in DOMAIN rows : rows[i].visit_id = visitId

latestSnapshot(visitId) ==
    LET own == {i \in DOMAIN domSnapshots : domSnapshots[i].visit_id = visitId}
    IN IF own = {} THEN << >>
       ELSE domSnapshots[CHOOSE i \in own : \A j \in own : j <= i].html

hasVisitContent(visitId) == \E i \in DOMAIN pageVisits : pageVisits[i].id = visitId

\* getVisitContent: title and url of the visit, html of its latest snapshot
getVisitContent(visitId) ==
    LET row == pageVisits[CHOOSE i \in DOMAIN pageVisits : pageVisits[i].id = visitId]
    IN [title |-> row.title, url |-> row.url, html |-> latestSnapshot(visitId)]

recordEmbedding(rows, visitId, modelName, hash) ==
    LET kept == SelectSeq(rows, LAMBDA r : r.visit_id # visitId)
    IN Append(kept, [visit_id |-> visitId, model_name |-> modelName,
                     content_hash |-> hash, created_at |-> now])

\* `${content.title}\n${content.url}\n${text}`
embeddingText(content) ==
    <<content.title, content.url, substring(stripTags(content.html), TEXT_CAP)>>

\* createHash("md5").update(embeddingText).digest("hex"): equal texts have
\* equal digests, different texts different ones
md5(text) == <<"md5", text>>

\* embedMany of the external model: one vector per text
embed(text) == IF text[1] = "Loading..." THEN E1 ELSE IF text[1] = "Title A" THEN E2 ELSE E3

\* the hash a request for the visit computes from the content stored now
contentHash(visitId) == md5(embeddingText(getVisitContent(visitId)))

\* generateEmbedding up to its await of embedMany
embedStart(t, visitId) ==
    IF ~vectorStore \/ ~embeddingModel
    THEN UNCHANGED <<inflight, lastRequested>>
    ELSE IF hasEmbedding(embeddings, visitId)
    THEN /\ UNCHANGED inflight
         /\ lastRequested' =
                IF hasVisitContent(visitId)
                THEN MapSet(lastRequested, visitId, contentHash(visitId))
                ELSE lastRequested
    ELSE IF ~hasVisitContent(visitId)
    THEN UNCHANGED <<inflight, lastRequested>>
    ELSE /\ inflight' = inflight \cup
                {[id |-> freshId, kind |-> "embedding", tab |-> t, visitId |-> visitId,
                  started |-> now, tracker |-> NULL,
                  page |-> embeddingText(getVisitContent(visitId))]}
         /\ UNCHANGED lastRequested

\* generateEmbedding after the await: addVector and recordEmbedding when
\* embedMany resolved, the catch when it rejected
embedDone(c, ok) ==
    /\ inflight' = inflight \ {c}
    /\ IF ok
       THEN /\ addVector(c.visitId, embed(c.page))
            /\ embeddings' = recordEmbedding(embeddings, c.visitId,
                                             EMBEDDING_MODEL, md5(c.page))
            /\ lastRequested' = MapSet(lastRequested, c.visitId, md5(c.page))
       ELSE UNCHANGED <<index, indexFile, embeddings, lastRequested>>

\* handleTitleUpdate
handleTitleUpdate(t, title) ==
    IF tracking /\ t \in DOMAIN visitTrackers /\ title # "" /\ title # "Loading..."
    THEN pageVisits' = updatePageVisitTitle(pageVisits, visitTrackers[t].visitId, title)
    ELSE UNCHANGED pageVisits


(***************************************************************************)
(* Events.  Each action is one callback of the event loop, run to its end  *)
(* or to its first await.  lastOp records which callback ran last and what *)
(* it was given and did; threw, whether it ended by throwing to its        *)
(* caller.  For a did-navigate delivered to the tracker:                   *)
(* rep counts the identical events in a row, made the page_visits rows     *)
(* this event inserted, total the rows inserted by the events of the row   *)
(* so far, fresh whether the tab's tracker held another URL (or none)      *)
(* before the first of them.                                               *)
(***************************************************************************)
sameAsLast(t, url) == lastOp.op = "nav" /\ lastOp.tab = t /\ lastOp.url = url

navOp(t, url, made) ==
    [op |-> "nav", tab |-> t, url |-> url,
     threw |-> navigationThrows(t, url),
     rep |-> IF sameAsLast(t, url) THEN Min(lastOp.rep + 1, 3) ELSE 1,
     made |-> made,
     total |-> IF sameAsLast(t, url) THEN lastOp.total + made ELSE made,
     fresh |-> IF sameAsLast(t, url) THEN lastOp.fresh
               ELSE ~(t \in DOMAIN visitTrackers /\ visitTrackers[t].url = url)]

\* start(), while fewer than limit sessions were ever started.  The save()
\* of startSession comes before the tab events of the listeners' setup.
StartWithin(limit) ==
    /\ sqliteSequence.sessions < limit
    /\ start
    /\ lastOp' = [op |-> "start", threw |-> startThrows]
    /\ UNCHANGED <<now, scrollEvents, workflowCache, initPending, analyzerVars,
                   vectorVars, browserVars, accepted, lastRequested>>
    /\ dbFile' = IF enabled /\ ~startThrows
                  THEN <<[tables' EXCEPT !.tab_events = tabEvents]>>
                  ELSE dbFile

Start == StartWithin(MaxSessions)

\* start() whatever the tracker's state: also while a session is open
StartAgain == StartWithin(MaxSessionRows)

\* HistoryDatabase.startSession() called on the database itself
StartSession ==
    /\ sqliteSequence.sessions < MaxSessionRows
    /\ IF dbThrows THEN UNCHANGED dbVars
       ELSE /\ startSession
            /\ UNCHANGED <<db, pageVisits, tabEvents, interactions, screenshots,
                           domSnapshots, embeddings>>
    /\ lastOp' = [op |-> "startSession", threw |-> dbThrows]
    /\ UNCHANGED <<now, scrollEvents, workflowCache, initPending, analyzerVars,
                   trackerVars, timerVars, vectorVars, browserVars, accepted,
                   lastRequested>>
    /\ save

\* HistoryDatabase.endSession(id) called on the database itself
EndSession(id) ==
    /\ endSession(id)
    /\ lastOp' = [op |-> "endSession", threw |-> FALSE]
    /\ UNCHANGED <<now, scrollEvents, workflowCache, initPending, analyzerVars,
                   trackerVars, timerVars, db, sqliteSequence, pageVisits,
                   tabEvents, interactions, screenshots, domSnapshots,
                   embeddings, vectorVars, browserVars, accepted, lastRequested>>
    /\ save

Stop ==
    /\ stop
    /\ UNCHANGED enabled
    /\ lastOp' = Other("stop")
    /\ UNCHANGED <<now, scrollEvents, workflowCache, initPending, analyzerVars,
                   vectorVars, browserVars, accepted, lastRequested>>
    /\ IF sessionId # NULL THEN save ELSE UNCHANGED dbFile

SetEnabled(b) ==
    /\ setEnabled(b)
    /\ lastOp' = Other("setEnabled")
    /\ UNCHANGED <<now, scrollEvents, workflowCache, initPending, analyzerVars,
                   vectorVars, browserVars, accepted, lastRequested>>
    /\ IF ~b /\ sessionId # NULL THEN save ELSE UNCHANGED dbFile

AddExcludedDomain(d) ==
    /\ addExcludedDomain(d)
    /\ lastOp' = Other("addExcludedDomain")
    /\ UNCHANGED <<now, storeVars, analyzerVars, vectorVars, browserVars, accepted, lastRequested>>

\* addExcludedDomain while the exclusions are configured, before tracking
\* starts
ExcludeBeforeStart(d) ==
    /\ sessionId = NULL
    /\ pageVisits = << >>
    /\ AddExcludedDomain(d)

RemoveExcludedDomain(d) ==
    /\ removeExcludedDomain(d)
    /\ lastOp' = Other("removeExcludedDomain")
    /\ UNCHANGED <<now, storeVars, analyzerVars, vectorVars, browserVars, accepted, lastRequested>>

\* setVectorStore(vectorStore)
SetVectorStore ==
    /\ vectorStore' = TRUE
    /\ lastOp' = Other("setVectorStore")
    /\ UNCHANGED <<now, storeVars, analyzerVars, enabled, sessionId, pendingInteractions, batchInterval,
                   visitTrackers, excludedDomains, trackedTabs, embeddingModel,
                   timerVars, dbVars, vectorVars, browserVars, accepted,
                   lastRequested>>

\* setEmbeddingModel(model) with a model or with null
SetEmbeddingModel(b) ==
    /\ embeddingModel' = b
    /\ lastOp' = Other("setEmbeddingModel")
    /\ UNCHANGED <<now, storeVars, analyzerVars, enabled, sessionId, pendingInteractions, batchInterval,
                   visitTrackers, excludedDomains, trackedTabs, vectorStore,
                   timerVars, dbVars, vectorVars, browserVars, accepted,
                   lastRequested>>

\* the tab loads url (did-navigate) or moves to it within its document
\* (did-navigate-in-page, main frame); the listeners of a tracked tab call
\* handleNavigation
NavigateWithin(t, url, inPage, limit) ==
    /\ t \in openTabs
    /\ sqliteSequence.page_visits < limit
    /\ inPage => (tabUrl[t] # NoUrl /\ hostname(tabUrl[t]) = hostname(url))
    /\ tabUrl' = [tabUrl EXCEPT ![t] = url]
    /\ pageLoaded' = IF inPage THEN pageLoaded ELSE [pageLoaded EXCEPT ![t] = FALSE]
    /\ pageScript' = IF inPage THEN pageScript ELSE [pageScript EXCEPT ![t] = NULL]
    /\ IF t \in trackedTabs
       THEN /\ handleNavigation(t, url)
            /\ lastOp' = navOp(t, url, Len(pageVisits') - Len(pageVisits))
       ELSE /\ UNCHANGED <<trackerVars, timerVars, dbVars>>
            /\ lastOp' = Other("browse")
    /\ UNCHANGED <<now, storeVars, analyzerVars, openTabs, tabsMap, vectorVars, accepted, lastRequested>>

Navigate(t, url, inPage) == NavigateWithin(t, url, inPage, MaxVisits)

\* page-title-updated
TitleUpdate(t, title) ==
    /\ t \in openTabs
    /\ t \in trackedTabs
    /\ handleTitleUpdate(t, title)
    /\ lastOp' = Other("title")
    /\ UNCHANGED <<now, storeVars, analyzerVars, trackerVars, timerVars, db, sqliteSequence, sessions, currentSessionId,
                   tabEvents, interactions, screenshots, domSnapshots,
                   embeddings, vectorVars, browserVars, accepted, lastRequested>>

\* injectTrackingScript: the script carries the visit id of the tab's tracker
injectTrackingScript(t) ==
    IF t \in DOMAIN visitTrackers THEN visitTrackers[t].visitId ELSE NULL

\* did-finish-load
FinishLoad(t) ==
    /\ t \in openTabs
    /\ ~pageLoaded[t]
    /\ pageLoaded' = [pageLoaded EXCEPT ![t] = TRUE]
    /\ pageScript' = [pageScript EXCEPT ![t] =
                         IF t \in trackedTabs THEN injectTrackingScript(t) ELSE NULL]
    /\ lastOp' = Other("load")
    /\ UNCHANGED <<now, storeVars, analyzerVars, trackerVars, timerVars, dbVars, vectorVars, openTabs, tabsMap,
                   tabUrl, accepted, lastRequested>>

\* history-track-interaction: pushed is the length of the queue after the
\* push, 0 when the interaction was not accepted
TrackInteraction(item) ==
    /\ recordInteraction(item)
    /\ lastOp' = [op |-> "interaction", threw |-> FALSE,
                  pushed |-> IF enabled THEN Len(pendingInteractions) + 1 ELSE 0]
    /\ UNCHANGED <<now, storeVars, analyzerVars, enabled, sessionId, batchInterval, visitTrackers,
                   excludedDomains, trackedTabs, vectorStore, embeddingModel,
                   timerVars, db, sqliteSequence, sessions, currentSessionId, pageVisits, tabEvents,
                   screenshots, domSnapshots, embeddings, vectorVars,
                   browserVars, lastRequested>>

\* the user acts on the page: its tracking script reports under its visit id
PageInteraction(t) ==
    /\ t \in openTabs
    /\ pageScript[t] # NULL
    /\ accepted < MaxInteractions
    /\ TrackInteraction(interaction(pageScript[t], tabUrl[t]))

\* a renderer sends history-track-interaction
IpcInteraction ==
    /\ accepted < MaxBatchInteractions
    /\ TrackInteraction(interaction(1, NoUrl))

\* a renderer sends history-track-interaction without a visitId
MalformedInteraction ==
    /\ accepted < MaxInteractions
    /\ TrackInteraction(interaction(Undefined, NoUrl))

\* a renderer calls electronAPI.trackInteraction at a time of its choosing
RendererInteraction ==
    /\ accepted < MaxInteractions
    /\ TrackInteraction(interaction(1, NoUrl))

\* the window makes another tab the active one
SwitchTab(t) ==
    /\ t \in openTabs
    /\ Len(tabEvents) < MaxTabEvents
    /\ handleTabSwitch(t)
    /\ lastOp' = [op |-> "switch", threw |-> FALSE]
    /\ UNCHANGED <<now, storeVars, analyzerVars, trackerVars, timerVars, db,
                   sqliteSequence, sessions, currentSessionId, pageVisits,
                   interactions, screenshots, domSnapshots, embeddings,
                   vectorVars, browserVars, accepted, lastRequested>>

\* new Set(this.tabsMap.keys())
keys(map) == {map[i] : i \in DOMAIN map}

\* newTabsMap.set(id, tab) for each id in turn: a key set again keeps the
\* place of its first insertion
RECURSIVE setAll(_, _)
setAll(map, ids) ==
    IF ids = << >> THEN map
    ELSE setAll(IF Head(ids) \in keys(map) THEN map ELSE Append(map, Head(ids)),
                Tail(ids))

\* Window.reorderTabs: false when the number of ids is not the number of
\* tabs or an id is of no tab, else the map is rebuilt in the order of ids
reorderTabs(ids) ==
    IF \/ Len(ids) # Cardinality(keys(tabsMap))
       \/ \E i \in DOMAIN ids : ids[i] \notin keys(tabsMap)
    THEN [result |-> FALSE, tabsMap |-> tabsMap]
    ELSE [result |-> TRUE, tabsMap |-> setAll(<< >>, ids)]

\* reorder-tabs: the renderer's array goes to reorderTabs as it came
ReorderTabs(ids) ==
    /\ tabsMap' = reorderTabs(ids).tabsMap
    /\ lastOp' = [op |-> "reorder", ids |-> ids, before |-> tabsMap,
                  result |-> reorderTabs(ids).result]
    /\ UNCHANGED <<now, storeVars, analyzerVars, trackerVars, timerVars, dbVars,
                   vectorVars, openTabs, tabUrl, pageLoaded, pageScript,
                   accepted, lastRequested>>

\* Window.closeTab of a tab of the map
CloseTab(t) ==
    /\ t \in openTabs
    /\ t \in keys(tabsMap)
    /\ openTabs' = openTabs \ {t}
    /\ tabsMap' = SelectSeq(tabsMap, LAMBDA id : id # t)
    /\ pageScript' = [pageScript EXCEPT ![t] = NULL]
    /\ handleTabClose(t)
    /\ lastOp' = [op |-> "close", threw |-> FALSE, tab |-> t]
    /\ UNCHANGED <<now, storeVars, analyzerVars, vectorVars, tabUrl, pageLoaded, accepted, lastRequested>>

\* a due setTimeout callback runs; callbacks run in the order they fall due
FireTimeout(tm) ==
    /\ tm \in timeouts
    /\ tm.due <= now
    /\ \A o \in timeouts : o.due >= tm.due
    /\ timeouts' = timeouts \ {tm}
    /\ IF tm.kind = "embedding"
       THEN embedStart(tm.tab, tm.visitId)
       ELSE captureStart(tm.kind, tm.tab, tm.visitId) /\ UNCHANGED lastRequested
    /\ lastOp' = [op |-> "timeout", kind |-> tm.kind, tab |-> tm.tab,
                  visitId |-> tm.visitId,
                  throttled |-> /\ tm.kind # "embedding"
                                /\ tm.tab \in DOMAIN visitTrackers
                                /\ throttled(visitTrackers[tm.tab], tm.kind)]
    /\ UNCHANGED <<now, storeVars, analyzerVars, trackerVars, intervals, dbVars, vectorVars, browserVars,
                   accepted>>

\* captureScreenshot / captureDOMSnapshot called for the visit of the tab's
\* tracker
CaptureAttempt(kind, t) ==
    /\ t \in DOMAIN visitTrackers
    /\ Cardinality(inflight) < MaxInflight
    /\ captureStart(kind, t, visitTrackers[t].visitId)
    /\ lastOp' = Other("capture")
    /\ UNCHANGED <<now, storeVars, analyzerVars, trackerVars, intervals, timeouts, dbVars, vectorVars,
                   browserVars, accepted, lastRequested>>

\* generateEmbedding called for the visit of the tab's tracker
RequestEmbedding(t) ==
    /\ t \in DOMAIN visitTrackers
    /\ Cardinality(inflight) < MaxInflight
    /\ embedStart(t, visitTrackers[t].visitId)
    /\ lastOp' = Other("embed")
    /\ UNCHANGED <<now, storeVars, analyzerVars, trackerVars, intervals, timeouts, dbVars, vectorVars,
                   browserVars, accepted>>

\* the awaited call of a suspended capture settles
CaptureDone(c, ok) ==
    /\ c \in inflight
    /\ c.kind # "embedding"
    /\ captureDone(c, ok)
    /\ lastOp' = Other("settled")
    /\ UNCHANGED <<now, storeVars, analyzerVars, enabled, sessionId, pendingInteractions, batchInterval,
                   excludedDomains, trackedTabs, vectorStore, embeddingModel,
                   intervals, timeouts, db, sqliteSequence, sessions, currentSessionId, pageVisits,
                   tabEvents, interactions, embeddings, vectorVars, browserVars,
                   accepted, lastRequested>>

\* the awaited embedMany of a suspended generateEmbedding settles
EmbeddingDone(c, ok) ==
    /\ c \in inflight
    /\ c.kind = "embedding"
    /\ embedDone(c, ok)
    /\ lastOp' = [op |-> "embedded", visitId |-> c.visitId, ok |-> ok]
    /\ UNCHANGED <<now, storeVars, analyzerVars, trackerVars, intervals, timeouts, db, sqliteSequence, sessions,
                   currentSessionId, pageVisits, tabEvents, interactions,
                   screenshots, domSnapshots, searchResult, browserVars,
                   accepted>>

\* a setInterval callback of start() runs; had is the number of rows and
\* wrote the length of the queue it found
BatchTimer(iv) ==
    /\ iv \in intervals
    /\ iv.due <= now
    /\ flushInteractions
    /\ intervals' = (intervals \ {iv}) \cup {[iv EXCEPT !.due = now + BATCH_INTERVAL]}
    /\ lastOp' = [op |-> "batchTimer", had |-> Len(interactions),
                  wrote |-> Len(pendingInteractions)]
    /\ UNCHANGED <<now, storeVars, analyzerVars, enabled, sessionId, batchInterval, visitTrackers,
                   excludedDomains, trackedTabs, vectorStore, embeddingModel,
                   timeouts, inflight, db, sqliteSequence, sessions, currentSessionId, pageVisits,
                   tabEvents, screenshots, domSnapshots, embeddings, vectorVars,
                   browserVars, accepted, lastRequested>>

\* history-get-recent: flush before reading the visits; found is the queue
\* the flush was called on
ManualFlush ==
    /\ flushInteractions
    /\ lastOp' = [op |-> "flush", threw |-> FALSE, found |-> pendingInteractions]
    /\ UNCHANGED <<now, storeVars, analyzerVars, enabled, sessionId, batchInterval, visitTrackers,
                   excludedDomains, trackedTabs, vectorStore, embeddingModel,
                   timerVars, db, sqliteSequence, sessions, currentSessionId, pageVisits, tabEvents,
                   screenshots, domSnapshots, embeddings, vectorVars,
                   browserVars, accepted, lastRequested>>

\* history-get-visit-details: flush, then read the rows of the visit
GetVisitDetails(visitId) ==
    /\ flushInteractions
    /\ lastOp' = [op |-> "details", visit |-> visitId,
                  found |-> pendingInteractions,
                  interactions |-> getVisitInteractions(interactions', visitId)]
    /\ UNCHANGED <<now, storeVars, analyzerVars, enabled, sessionId,
                   batchInterval, visitTrackers, excludedDomains, trackedTabs,
                   vectorStore, embeddingModel, timerVars, db, sqliteSequence,
                   sessions, currentSessionId, pageVisits, tabEvents,
                   screenshots, domSnapshots, embeddings, vectorVars,
                   browserVars, accepted, lastRequested>>

\* HistoryDatabase.close(): the save timer is cleared, the last save, then
\* db = null
CloseDatabase ==
    /\ db
    /\ db' = FALSE
    /\ lastOp' = [op |-> "closeDatabase", after |-> lastOp.op]
    /\ UNCHANGED <<now, scrollEvents, workflowCache, initPending, analyzerVars,
                   trackerVars, timerVars,
                   sqliteSequence, sessions, currentSessionId, pageVisits,
                   tabEvents, interactions, screenshots, domSnapshots,
                   embeddings, vectorVars, browserVars, accepted, lastRequested>>
    /\ save

\* HistoryDatabase.close() while initializeDatabase is suspended at its
\* await: saveTimer and db are still null, so nothing is cleared, saved or
\* closed, and the initialization goes on
CloseBeforeReady ==
    /\ initPending
    /\ ~db
    /\ lastOp' = [op |-> "closeDatabase", after |-> lastOp.op]
    /\ UNCHANGED <<now, storeVars, analyzerVars, trackerVars, timerVars, dbVars,
                   vectorVars, browserVars, accepted, lastRequested>>

\* the callback of saveTimer, which runs from the end of initializeDatabase
\* to close()
SaveTimer ==
    /\ db
    /\ lastOp' = Other("save")
    /\ UNCHANGED <<now, scrollEvents, workflowCache, initPending, analyzerVars,
                   trackerVars, timerVars, dbVars, vectorVars, browserVars,
                   accepted, lastRequested>>
    /\ save

\* history-clear-old
DeleteOldHistory(days) ==
    /\ deleteOldHistory(days)
    /\ lastOp' = [op |-> "deleteOldHistory", threw |-> FALSE, days |-> days]
    /\ UNCHANGED <<now, workflowCache, initPending, analyzerVars, trackerVars,
                   timerVars, db, sqliteSequence, currentSessionId, embeddings,
                   vectorVars, browserVars, accepted, lastRequested>>
    /\ save

\* initializeDatabase resolves: db is set and the schema is there
InitializeDatabase ==
    /\ initPending
    /\ initPending' = FALSE
    /\ db' = TRUE
    /\ lastOp' = Other("initializeDatabase")
    /\ UNCHANGED <<now, scrollEvents, workflowCache, dbFile, analyzerVars,
                   trackerVars,
                   timerVars, sqliteSequence, sessions, currentSessionId,
                   pageVisits, tabEvents, interactions, screenshots,
                   domSnapshots, embeddings, vectorVars, browserVars, accepted,
                   lastRequested>>

\* the writes and the reads of the HistoryDatabase beside startSession,
\* endSession and deleteOldHistory, called on the database itself
WriteCalls == {"recordPageVisit", "updatePageVisitDuration", "recordTabEvent",
               "recordInteractionsBatch", "recordScreenshot",
               "recordDOMSnapshot", "recordScrollEvent", "cacheWorkflow"}
ReadCalls == {"getSessionHistory", "getRecentHistory", "getVisitInteractions",
              "getCurrentSession", "getVisitCount", "getWorkflowCache"}

storedRows ==
    Len(pageVisits) + Len(tabEvents) + Len(interactions) + Len(screenshots)
        + Len(domSnapshots) + Len(scrollEvents) + Len(workflowCache)

\* the call throws instead of returning
storeThrows(call) == call \in {"startSession", "recordPageVisit"} /\ dbThrows

\* one write, for session 1 and visit 1
StoreWrite(call) ==
    /\ storedRows < MaxStoreRows
    /\ pageVisits' =
           IF call = "recordPageVisit" /\ ~storeThrows(call)
           THEN recordPageVisit(pageVisits, nextId("page_visits"), 1, "t1",
                                UrlA1, "Title A", now)
           ELSE IF call = "updatePageVisitDuration"
           THEN updatePageVisitDuration(pageVisits, 1, TickMs)
           ELSE pageVisits
    /\ sqliteSequence' =
           IF call = "recordPageVisit" /\ ~storeThrows(call)
           THEN [sqliteSequence EXCEPT !.page_visits = nextId("page_visits")]
           ELSE sqliteSequence
    /\ tabEvents' = IF call = "recordTabEvent"
                    THEN recordTabEvent(tabEvents, 1, "t1", "switched", now)
                    ELSE tabEvents
    /\ interactions' = IF call = "recordInteractionsBatch"
                       THEN recordInteractionsBatch(interactions,
                                                    <<interaction(1, NoUrl)>>)
                       ELSE interactions
    /\ screenshots' = IF call = "recordScreenshot"
                      THEN recordScreenshot(screenshots, 1, screenshot(UrlA1), now)
                      ELSE screenshots
    /\ domSnapshots' = IF call = "recordDOMSnapshot"
                       THEN recordDOMSnapshot(domSnapshots, 1, pageHtml(UrlA1), now)
                       ELSE domSnapshots
    /\ scrollEvents' = IF call = "recordScrollEvent"
                       THEN recordScrollEvent(scrollEvents, 1, now)
                       ELSE scrollEvents
    /\ workflowCache' = IF call = "cacheWorkflow"
                        THEN cacheWorkflow(workflowCache, 1, stringify(SignInFlow), now)
                        ELSE workflowCache
    /\ lastOp' = [op |-> call, threw |-> storeThrows(call)]
    /\ UNCHANGED <<now, initPending, analyzerVars, trackerVars, timerVars, db,
                   sessions, currentSessionId, embeddings, vectorVars,
                   browserVars, accepted, lastRequested>>
    /\ IF call = "cacheWorkflow" THEN save ELSE UNCHANGED dbFile

\* what the read can return
storeRead(call) ==
    CASE call = "getSessionHistory" -> {getSessionHistory(1)}
      [] call = "getRecentHistory" -> {getRecentHistory(MaxStoreRows)}
      [] call = "getVisitInteractions" -> {getVisitInteractions(interactions, 1)}
      [] call = "getCurrentSession" -> {getCurrentSession}
      [] call = "getVisitCount" -> {getVisitCount}
      [] call = "getWorkflowCache" -> getWorkflowCache(1)

StoreRead(call) ==
    /\ \E result \in storeRead(call) :
           lastOp' = [op |-> call, threw |-> FALSE, result |-> result]
    /\ UNCHANGED <<now, storeVars, analyzerVars, trackerVars, timerVars, dbVars,
                   vectorVars, browserVars, accepted, lastRequested>>

\* d ms pass once every due callback has run
advance(d, limit) ==
    /\ now + d <= StartTime + limit
    /\ \A tm \in timeouts : tm.due > now
    /\ \A iv \in intervals : iv.due > now
    /\ now' = now + d
    /\ UNCHANGED <<trackerVars, timerVars, dbVars, storeVars, analyzerVars,
                   vectorVars, browserVars, ghostVars>>

Tick == advance(TickMs, MaxElapsed)

\* a whole batch interval passes
IntervalElapses == advance(BATCH_INTERVAL, MaxBatchElapsed)

\* the browser stays open for another day
DayPasses == advance(DAY_MS, MaxDays * DAY_MS)

\* a whole batch interval passes, more than once
Wait == advance(BATCH_INTERVAL, MaxLatencyElapsed)

(***************************************************************************)
(* Calls of the WorkflowAnalyzer.  An analysis that reaches its generation *)
(* call is suspended there until the call settles.                         *)
(***************************************************************************)
NotConfigured == "LLM model not initialized"
SessionNotFound == "Session not found"
NoHistory == "No history to analyze"
NoError == ""
AnalyzeCalls == {"analyzeSession", "analyzeRecentHistory", "streamWorkflowAnalysis"}

\* `!this.model`
modelMissing_skipped == FALSE
modelMissing == ~model

\* `visits.length === 0`
noVisits_skipped(visits) == FALSE
noVisits(visits) == Len(visits) = 0

\* `!sessionData.session`
sessionMissing(sessionData) == sessionData.session = << >>

\* analyzeSession(sessionId) up to its generation call: the error it throws,
\* if any, and whether it has read the store
analyzeSession(id) ==
    IF modelMissing THEN [error |-> NotConfigured, read |-> FALSE]
    ELSE IF sessionMissing(getSessionHistory(id))
         THEN [error |-> SessionNotFound, read |-> TRUE]
         ELSE [error |-> NoError, read |-> TRUE]

\* analyzeRecentHistory(limitVisits) up to its generation call
analyzeRecentHistory(limitVisits) ==
    IF modelMissing THEN [error |-> NotConfigured, read |-> FALSE]
    ELSE IF noVisits(getRecentHistory(limitVisits))
         THEN [error |-> NoHistory, read |-> TRUE]
         ELSE [error |-> NoError, read |-> TRUE]

\* streamWorkflowAnalysis(sessionId), from the first next() of its generator
\* up to its generation call
streamWorkflowAnalysis(id) ==
    IF modelMissing THEN [error |-> NotConfigured, read |-> FALSE]
    ELSE IF sessionMissing(getSessionHistory(id))
         THEN [error |-> SessionNotFound, read |-> TRUE]
         ELSE [error |-> NoError, read |-> TRUE]

\* a call of the analyzer: it throws, or it calls the generation capability
\* and waits
Analyze(call, outcome, arg) ==
    /\ generated < MaxGenerations
    /\ lastOp' = [op |-> call, threw |-> outcome.error # NoError,
                  error |-> outcome.error, read |-> outcome.read, arg |-> arg]
    /\ IF outcome.error = NoError
       THEN /\ generated' = generated + 1
            /\ analyses' = analyses \cup
                   {[id |-> generated + 1, call |-> call, arg |-> arg]}
       ELSE UNCHANGED <<generated, analyses>>
    /\ UNCHANGED <<now, model, storeVars, trackerVars, timerVars, dbVars,
                   vectorVars, browserVars, accepted, lastRequested>>

AnalyzeSession(id) ==
    Analyze("analyzeSession", analyzeSession(id), id)

AnalyzeRecentHistory(limitVisits) ==
    Analyze("analyzeRecentHistory", analyzeRecentHistory(limitVisits), limitVisits)

StreamWorkflowAnalysis(id) ==
    Analyze("streamWorkflowAnalysis", streamWorkflowAnalysis(id), id)

\* getCachedWorkflow(sessionId): the parsed workflow_data of the cache row,
\* or null; the set of the results the call can give
getCachedWorkflow(id) ==
    {IF cache = << >> THEN << >> ELSE parse(cache[1].workflow_data) :
         cache \in getWorkflowCache(id)}

\* the generation call of analysis a settles: generateObject resolves with
\* the object w or rejects, the partial object stream ends or fails;
\* analyzeSession caches the object it was given and returns it
GenerationSettles(a, ok, w) ==
    /\ a \in analyses
    /\ analyses' = analyses \ {a}
    /\ workflowCache' = IF a.call = "analyzeSession" /\ ok
                        THEN cacheWorkflow(workflowCache, a.arg, stringify(w), now)
                        ELSE workflowCache
    /\ lastOp' = [op |-> "generationSettles", threw |-> ~ok, call |-> a.call,
                  arg |-> a.arg, result |-> IF ok THEN <<w>> ELSE << >>]
    /\ UNCHANGED <<now, scrollEvents, initPending, model, generated,
                   trackerVars, timerVars, dbVars, vectorVars, browserVars,
                   accepted, lastRequested>>
    /\ IF a.call = "analyzeSession" /\ ok THEN save ELSE UNCHANGED dbFile

\* getCachedWorkflow(sessionId) is called
GetCachedWorkflow(id) ==
    /\ \E result \in getCachedWorkflow(id) :
           lastOp' = [op |-> "getCachedWorkflow", threw |-> FALSE, arg |-> id,
                      result |-> result]
    /\ UNCHANGED <<now, storeVars, analyzerVars, trackerVars, timerVars, dbVars,
                   vectorVars, browserVars, accepted, lastRequested>>

(***************************************************************************)
(* Calls of the VectorStore.  An index file left by an earlier run holds   *)
(* the vectors of that run's visits.                                       *)
(***************************************************************************)
LoadedIndex == [EmptyIndex EXCEPT !.loaded = MAX_ELEMENTS - 1]
Labels == {1, MAX_ELEMENTS, MAX_ELEMENTS + 1}
Ks == {1, DEFAULT_K, MAX_ELEMENTS + 1}

InitVec ==
    /\ Fresh
    /\ db = TRUE
    /\ initPending = FALSE
    /\ model = FALSE
    /\ \/ index = EmptyIndex /\ indexFile = FALSE
       \/ index = LoadedIndex /\ indexFile = TRUE

\* full tells whether the index had no room for the label; outcome is what
\* the caller saw
AddVector(visitId, embedding) ==
    /\ addVector(visitId, embedding)
    /\ lastOp' = [op |-> "addVector", label |-> visitId,
                  full |-> indexFull(index, visitId),
                  outcome |-> addVectorOutcome(index, visitId)]
    /\ UNCHANGED <<now, storeVars, analyzerVars, trackerVars, timerVars, dbVars, searchResult,
                   browserVars, accepted, lastRequested>>

Search(q, k) ==
    /\ searchResult' = search(index, q, k)
    /\ lastOp' = [op |-> "search", k |-> k]
    /\ UNCHANGED <<now, storeVars, analyzerVars, trackerVars, timerVars, dbVars, index, indexFile,
                   browserVars, accepted, lastRequested>>

Clear ==
    /\ clear
    /\ lastOp' = [op |-> "clear", count |-> getCurrentCount(index),
                  file |-> indexFile]
    /\ UNCHANGED <<now, storeVars, analyzerVars, trackerVars, timerVars, dbVars, searchResult,
                   browserVars, accepted, lastRequested>>

(***************************************************************************)
(* Specifications.  Spec is the tracker under navigation with the one-shot *)
(* timers and captures of its visits, over the time before the first batch *)
(* interval ends; the others put one part of the engine under its callers. *)
(***************************************************************************)
Next ==
    \/ Start
    \/ \E d \in Domains : AddExcludedDomain(d)
    \/ \E d \in Domains : RemoveExcludedDomain(d)
    \/ \E t \in Tabs, url \in Urls, inPage \in BOOLEAN : Navigate(t, url, inPage)
    \/ \E t \in Tabs : CloseTab(t)
    \/ \E tm \in timeouts : FireTimeout(tm)
    \/ \E c \in inflight, ok \in BOOLEAN : CaptureDone(c, ok)
    \/ Tick

Spec == Init /\ [][Next]_vars

\* the tracking script of a page and the interactions it reports, with the
\* exclusions configured before tracking starts
NextInteract ==
    \/ Start
    \/ Stop
    \/ \E b \in BOOLEAN : SetEnabled(b)
    \/ \E d \in Domains : ExcludeBeforeStart(d)
    \/ \E t \in Tabs, url \in Urls, inPage \in BOOLEAN : Navigate(t, url, inPage)
    \/ \E t \in Tabs : FinishLoad(t)
    \/ \E t \in Tabs : PageInteraction(t)
    \/ ManualFlush

SpecInteract == Init /\ [][NextInteract]_vars

\* the history queries of the renderer beside the interactions of the pages
NextRead ==
    \/ Start
    \/ Stop
    \/ \E t \in Tabs, url \in {UrlA1, UrlA2} : Navigate(t, url, FALSE)
    \/ \E t \in Tabs : FinishLoad(t)
    \/ \E t \in Tabs : PageInteraction(t)
    \/ ManualFlush
    \/ \E visitId \in 1 .. MaxVisits : GetVisitDetails(visitId)
    \/ CloseDatabase

SpecRead == Init /\ [][NextRead]_vars

\* the tracker's handlers while the database is open and after it is closed
NextFailure ==
    \/ Start
    \/ \E t \in Tabs, url \in {UrlA1, UrlA2}, inPage \in BOOLEAN :
           Navigate(t, url, inPage)
    \/ \E t \in Tabs : SwitchTab(t)
    \/ \E t \in Tabs : CloseTab(t)
    \/ RendererInteraction
    \/ ManualFlush
    \/ CloseDatabase

SpecFailure == Init /\ [][NextFailure]_vars

\* a session that lasts for days, its visits and their captures, and the
\* clearing of old history
NextDelete ==
    \/ Start
    \/ \E t \in Tabs, url \in {UrlA1, UrlA2} : Navigate(t, url, FALSE)
    \/ \E tm \in timeouts : FireTimeout(tm)
    \/ \E c \in inflight : CaptureDone(c, TRUE)
    \/ \E iv \in intervals : BatchTimer(iv)
    \/ DayPasses
    \/ \E days \in 0 .. MaxDays : DeleteOldHistory(days)

SpecDelete == Init /\ [][NextDelete]_vars

\* the calls of the HistoryDatabase from its construction on: before its
\* initialization completes, while it is open and after close()
InitStore ==
    /\ Fresh
    /\ db = FALSE
    /\ initPending = TRUE
    /\ model = FALSE
    /\ index = EmptyIndex
    /\ indexFile = FALSE

NextStore ==
    \/ InitializeDatabase
    \/ CloseDatabase
    \/ StartSession
    \/ \E id \in 1 .. MaxSessions : EndSession(id)
    \/ \E call \in WriteCalls : StoreWrite(call)
    \/ \E call \in ReadCalls : StoreRead(call)
    \/ \E days \in 0 .. MaxDays : DeleteOldHistory(days)

SpecStore == InitStore /\ [][NextStore]_vars

\* the analyses of the renderer over the history of a browsing session, with
\* a generation model configured or without one
InitAnalyze ==
    /\ Fresh
    /\ db = TRUE
    /\ initPending = FALSE
    /\ model \in BOOLEAN
    /\ index = EmptyIndex
    /\ indexFile = FALSE

NextAnalyze ==
    \/ Start
    \/ \E t \in Tabs, url \in {UrlA1, UrlA2} : Navigate(t, url, FALSE)
    \/ CloseDatabase
    \/ \E id \in 1 .. MaxSessions + 1 : AnalyzeSession(id)
    \/ \E limitVisits \in {1, DEFAULT_LIMIT_VISITS} :
           AnalyzeRecentHistory(limitVisits)
    \/ \E id \in 1 .. MaxSessions + 1 : StreamWorkflowAnalysis(id)
    \/ \E a \in analyses, ok \in BOOLEAN, w \in Workflows :
           GenerationSettles(a, ok, w)

SpecAnalyze == InitAnalyze /\ [][NextAnalyze]_vars

\* analyses of sessions and reads of the workflow cache while time passes,
\* from the construction of the database to its close()
InitCache ==
    /\ Fresh
    /\ db = FALSE
    /\ initPending = TRUE
    /\ model = TRUE
    /\ index = EmptyIndex
    /\ indexFile = FALSE

NextCache ==
    \/ InitializeDatabase
    \/ CloseDatabase
    \/ StartSession
    \/ \E id \in 1 .. MaxSessions + 1 : AnalyzeSession(id)
    \/ \E a \in analyses, ok \in BOOLEAN, w \in Workflows :
           GenerationSettles(a, ok, w)
    \/ \E id \in 1 .. MaxSessions + 1 : GetCachedWorkflow(id)
    \/ Tick

SpecCache == InitCache /\ [][NextCache]_vars

\* a browsing session and its end: stop() and close() among the navigations,
\* the interactions and the timers
NextShutdown ==
    \/ Start
    \/ Stop
    \/ \E t \in Tabs, url \in {UrlA1, UrlA2} : Navigate(t, url, FALSE)
    \/ RendererInteraction
    \/ \E iv \in intervals : BatchTimer(iv)
    \/ IntervalElapses
    \/ SaveTimer
    \/ CloseDatabase

SpecShutdown == Init /\ [][NextShutdown]_vars

\* the run after MAX_ELEMENTS - 1 visits were recorded and embedded: the index
\* file holds their vectors and the ids of page_visits go on from theirs;
\* their rows are left out of the tables
InitFull ==
    /\ FreshFrom(MAX_ELEMENTS - 1)
    /\ db = TRUE
    /\ initPending = FALSE
    /\ model = FALSE
    /\ index = LoadedIndex
    /\ indexFile = TRUE

NextFull ==
    \/ Start
    \/ SetVectorStore
    \/ \E b \in BOOLEAN : SetEmbeddingModel(b)
    \/ \E t \in Tabs, url \in {UrlA1, UrlA2} :
           NavigateWithin(t, url, FALSE, MAX_ELEMENTS - 1 + MaxVisits)
    \/ \E t \in Tabs : RequestEmbedding(t)
    \/ \E c \in inflight, ok \in BOOLEAN : EmbeddingDone(c, ok)

SpecFull == InitFull /\ [][NextFull]_vars

\* the interactions of the pages, their batches and the clearing of old
\* history
NextRefs ==
    \/ Start
    \/ \E t \in Tabs, url \in {UrlA1, UrlA2} : Navigate(t, url, FALSE)
    \/ \E t \in Tabs : FinishLoad(t)
    \/ \E t \in Tabs : PageInteraction(t)
    \/ \E iv \in intervals : BatchTimer(iv)
    \/ IntervalElapses
    \/ \E days \in 0 .. MaxDays : DeleteOldHistory(days)

SpecRefs == Init /\ [][NextRefs]_vars

\* the tabs of the window, their navigations and their closing, while the
\* tracker is started, stopped, disabled and enabled
NextTabs ==
    \/ Start
    \/ Stop
    \/ \E b \in BOOLEAN : SetEnabled(b)
    \/ \E t \in Tabs, url \in {UrlA1, UrlA2} : Navigate(t, url, FALSE)
    \/ \E t \in Tabs : CloseTab(t)
    \/ Tick

SpecTabs == Init /\ [][NextTabs]_vars

\* navigations and the timeouts they set, with time enough for the last
\* timeout of a visit to fall due
NextTimers ==
    \/ Start
    \/ \E d \in Domains : AddExcludedDomain(d)
    \/ \E t \in Tabs, url \in Urls, inPage \in BOOLEAN : Navigate(t, url, inPage)
    \/ \E tm \in timeouts : FireTimeout(tm)
    \/ \E c \in inflight, ok \in BOOLEAN : CaptureDone(c, ok)
    \/ advance(TickMs, MaxTimerElapsed)

SpecTimers == Init /\ [][NextTimers]_vars

\* two tabs: the captures of one are suspended on their awaited calls, which
\* resolve late or never, while the other navigates and the batch timer runs
InitAsync ==
    /\ FreshWith(0, AllTabs)
    /\ db = TRUE
    /\ initPending = FALSE
    /\ model = FALSE
    /\ index = EmptyIndex
    /\ indexFile = FALSE

NextAsync ==
    \/ Start
    \/ \E t \in AllTabs : Navigate(t, UrlA1, FALSE)
    \/ \E tm \in timeouts : FireTimeout(tm)
    \/ \E c \in inflight : CaptureDone(c, TRUE)
    \/ RendererInteraction
    \/ \E iv \in intervals : BatchTimer(iv)
    \/ advance(TickMs, MaxBatchElapsed)

SpecAsync == InitAsync /\ [][NextAsync]_vars

\* interactions of a renderer, some of them without a visitId, and the batch
\* timer over two intervals
NextRetry ==
    \/ Start
    \/ RendererInteraction
    \/ MalformedInteraction
    \/ \E iv \in intervals : BatchTimer(iv)
    \/ Wait

SpecRetry == Init /\ [][NextRetry]_vars

\* tracking is disabled and enabled while the timeouts of a visit are
\* pending and its captures are suspended
NextDisable ==
    \/ Start
    \/ \E b \in BOOLEAN : SetEnabled(b)
    \/ \E t \in Tabs, url \in {UrlA1, UrlA2} : Navigate(t, url, FALSE)
    \/ \E tm \in timeouts : FireTimeout(tm)
    \/ \E c \in inflight, ok \in BOOLEAN : CaptureDone(c, ok)
    \/ Tick

SpecDisable == Init /\ [][NextDisable]_vars

\* a tab is closed while the timeouts of its visit are pending and its
\* captures are suspended, with a vector store and an embedding model set
NextClose ==
    \/ Start
    \/ SetVectorStore
    \/ SetEmbeddingModel(TRUE)
    \/ \E t \in Tabs : Navigate(t, UrlA1, FALSE)
    \/ \E t \in Tabs : CloseTab(t)
    \/ \E tm \in timeouts : FireTimeout(tm)
    \/ \E c \in inflight, ok \in BOOLEAN : CaptureDone(c, ok)
    \/ \E c \in inflight, ok \in BOOLEAN : EmbeddingDone(c, ok)
    \/ advance(TickMs, MaxTimerElapsed)

SpecClose == Init /\ [][NextClose]_vars

\* the HistoryDatabase from its construction on, closed before or after its
\* initialization completes
NextReady ==
    \/ InitializeDatabase
    \/ CloseBeforeReady
    \/ CloseDatabase
    \/ SaveTimer
    \/ StartSession
    \/ \E call \in WriteCalls : StoreWrite(call)

SpecReady == InitStore /\ [][NextReady]_vars

\* the tab strip of a window with two tabs: the renderer reorders it with
\* arrays of its choosing while tabs navigate and close
NextWindow ==
    \/ Start
    \/ \E n \in 0 .. MaxIds : \E ids \in [1 .. n -> TabIds] : ReorderTabs(ids)
    \/ \E t \in AllTabs : Navigate(t, UrlA1, FALSE)
    \/ \E t \in AllTabs : CloseTab(t)

SpecWindow == InitAsync /\ [][NextWindow]_vars

\* the session calls of the tracker and of the database, in any order
NextSession ==
    \/ StartAgain
    \/ Stop
    \/ \E b \in BOOLEAN : SetEnabled(b)
    \/ StartSession
    \/ \E id \in 1 .. MaxSessionRows + 1 : EndSession(id)

SpecSession == Init /\ [][NextSession]_vars

\* the interaction queue under a stream of interactions and its timer
NextBatch ==
    \/ Start
    \/ IpcInteraction
    \/ \E iv \in intervals : BatchTimer(iv)
    \/ IntervalElapses

SpecBatch == Init /\ [][NextBatch]_vars

\* the state SpecBatch is in after start() and one interaction short of the
\* threshold, all accepted in the first millisecond
InitOrder ==
    /\ now = StartTime
    /\ accepted = BATCH_THRESHOLD - 1
    /\ interactions = << >>
    /\ enabled = TRUE
    /\ sessionId = 1
    /\ pendingInteractions =
           [i \in 1 .. BATCH_THRESHOLD - 1 |->
               [visitId |-> 1, type |-> "click", timestamp |-> StartTime,
                seq |-> i, origin |-> NoUrl, excluded |-> FALSE]]
    /\ batchInterval = 1
    /\ visitTrackers = EmptyMap
    /\ excludedDomains = {}
    /\ trackedTabs = Tabs
    /\ vectorStore = FALSE
    /\ embeddingModel = FALSE
    /\ intervals = {[id |-> 1, due |-> StartTime + BATCH_INTERVAL]}
    /\ timeouts = {}
    /\ inflight = {}
    /\ db = TRUE
    /\ sqliteSequence = [sessions |-> 1, page_visits |-> 0]
    /\ sessions = <<sessionRow(1, StartTime)>>
    /\ currentSessionId = 1
    /\ pageVisits = << >>
    /\ tabEvents = <<[session_id |-> 1, tab_id |-> "t1", action |-> "created",
                      timestamp |-> StartTime]>>
    /\ screenshots = << >>
    /\ domSnapshots = << >>
    /\ embeddings = << >>
    /\ scrollEvents = << >>
    /\ workflowCache = << >>
    /\ initPending = FALSE
    /\ model = FALSE
    /\ analyses = {}
    /\ generated = 0
    /\ index = EmptyIndex
    /\ indexFile = FALSE
    /\ searchResult = << >>
    /\ openTabs = Tabs
    /\ tabsMap = SelectSeq(TabOrder, LAMBDA t : t \in Tabs)
    /\ tabUrl = [t \in AllTabs |-> NoUrl]
    /\ pageLoaded = [t \in AllTabs |-> TRUE]
    /\ pageScript = [t \in AllTabs |-> NULL]
    /\ lastOp = [op |-> "interaction", threw |-> FALSE,
                 pushed |-> BATCH_THRESHOLD - 1]
    /\ lastRequested = EmptyMap
    /\ dbFile = <<[tables EXCEPT !.tab_events = << >>]>>

\* the queue from there on, with the flushes of the history queries between
\* the interactions and the timer
NextOrder ==
    \/ IpcInteraction
    \/ \E iv \in intervals : BatchTimer(iv)
    \/ ManualFlush
    \/ IntervalElapses

SpecOrder == InitOrder /\ [][NextOrder]_vars

\* interactions that arrive before start(), while tracking and after stop(),
\* with the timer running whenever it is due
NextLatency ==
    \/ Start
    \/ Stop
    \/ RendererInteraction
    \/ \E iv \in intervals : BatchTimer(iv)
    \/ Wait

SpecLatency == Init /\ [][NextLatency]_vars

\* capture attempts for the visit a tab shows, before its scheduled
\* captures fall due
NextCapture ==
    \/ Start
    \/ \E t \in Tabs, url \in {UrlA1, UrlA2} : Navigate(t, url, FALSE)
    \/ \E kind \in {"screenshot", "snapshot"}, t \in Tabs : CaptureAttempt(kind, t)
    \/ \E c \in inflight, ok \in BOOLEAN : CaptureDone(c, ok)

SpecCapture == Init /\ [][NextCapture]_vars

\* embedding requests for the visit a tab shows, before its scheduled
\* captures fall due
NextEmbed ==
    \/ Start
    \/ SetVectorStore
    \/ \E b \in BOOLEAN : SetEmbeddingModel(b)
    \/ \E t \in Tabs, url \in {UrlA1, UrlA2} : Navigate(t, url, FALSE)
    \/ \E t \in Tabs, title \in Titles : TitleUpdate(t, title)
    \/ \E t \in Tabs : RequestEmbedding(t)
    \/ \E c \in inflight, ok \in BOOLEAN : EmbeddingDone(c, ok)

SpecEmbed == Init /\ [][NextEmbed]_vars

\* the vector store under its callers
NextVec ==
    \/ \E visitId \in Labels, embedding \in Vectors : AddVector(visitId, embedding)
    \/ \E q \in Vectors, k \in Ks : Search(q, k)
    \/ Clear

SpecVec == InitVec /\ [][NextVec]_vars

(***************************************************************************)
(* Properties.                                                             *)
(***************************************************************************)

\* C1: with tracking enabled and a session open, the second of two
\* successive navigation events for the same tab and the same URL inserts no
\* page_visits row, leaves the store and the trackers unchanged and schedules
\* no capture; when the first event moved the tab to a URL that is not
\* excluded, the two events together inserted exactly one row.
C1_DuplicateNavigation ==
    [][(lastOp'.op = "nav" /\ lastOp'.rep = 2 /\ tracking /\ now' = now)
         => /\ lastOp'.made = 0
            /\ UNCHANGED <<dbVars, visitTrackers, timerVars>>
            /\ (lastOp'.fresh /\ ~isExcludedDomain(lastOp'.url))
                  => lastOp'.total = 1]_vars

\* C1 witness: a second identical navigation event arrived for a tab that the
\* first event had moved to a new URL, and one row was inserted
C1_Witness ==
    /\ lastOp.op = "nav"
    /\ lastOp.rep = 2
    /\ lastOp.fresh
    /\ lastOp.total = 1
    /\ tracking
    /\ lastOp.tab \in DOMAIN visitTrackers
    /\ visitTrackers[lastOp.tab].url = lastOp.url

\* C2: a navigation event whose hostname is an excluded domain or ends with
\* "." followed by an excluded domain inserts no page_visits row.
C2_ExcludedNeverRecorded ==
    (lastOp.op = "nav" /\ isDomainExcluded(lastOp.url, excludedDomains))
        => lastOp.made = 0

\* C3: no interactions row comes from an interaction performed on a page of
\* an excluded host, under any visit id.
C3_NoInteractionFromExcluded ==
    \A i \in DOMAIN interactions : ~interactions[i].excluded

C7_NavigationEndsAndStarts ==
    [][(/\ lastOp'.op = "nav"
        /\ now' = now
        /\ tracking
        /\ lastOp'.tab \in DOMAIN visitTrackers
        /\ visitTrackers[lastOp'.tab].url # lastOp'.url
        /\ ~isExcludedDomain(lastOp'.url))
         => LET t == lastOp'.tab
                old == visitTrackers[t].visitId
                new == Len(pageVisits) + 1
            IN /\ Len(pageVisits') = new
               /\ pageVisits'[old].duration # NoDuration
               /\ pageVisits'[old].duration >= 0
               /\ pageVisits'[old] = [pageVisits[old] EXCEPT
                                         !.duration = pageVisits'[old].duration]
               /\ \A i \in DOMAIN pageVisits : i # old => pageVisits'[i] = pageVisits[i]
               /\ pageVisits'[new].id = new
               /\ pageVisits'[new].url = lastOp'.url
               /\ pageVisits'[new].tab_id = t
               /\ pageVisits'[new].duration = NoDuration
               /\ visitTrackers'[t].visitId = new
               /\ visitTrackers'[t].url = lastOp'.url
               /\ visitTrackers'[t].lastScreenshot = 0
               /\ visitTrackers'[t].lastSnapshot = 0]_vars

\* C7 witness: a tab whose first visit had a capture stamped on its tracker
\* navigated on: the first visit has its duration and the tracker is the
\* second visit's
C7_Witness ==
    /\ lastOp.op = "nav"
    /\ lastOp.made = 1
    /\ Len(pageVisits) = 2
    /\ pageVisits[1].duration > 0
    /\ Len(screenshots) > 0
    /\ lastOp.tab \in DOMAIN visitTrackers
    /\ visitTrackers[lastOp.tab].visitId = 2
    /\ visitTrackers[lastOp.tab].lastScreenshot = 0

C9_SearchBounded ==
    lastOp.op = "search"
        => /\ Len(searchResult) <= lastOp.k
           /\ \A i \in DOMAIN searchResult : hasPoint(index, searchResult[i])
           /\ \A i, j \in DOMAIN searchResult :
                 i # j => searchResult[i] # searchResult[j]

\* C9 witness: a search over an index of more than k points returned k of
\* them
C9_Witness ==
    /\ lastOp.op = "search"
    /\ lastOp.k = DEFAULT_K
    /\ Len(searchResult) = DEFAULT_K
    /\ getCurrentCount(index) > DEFAULT_K

\* C11: at most one sessions row has no end_time, whatever the sequence of
\* start(), stop(), setEnabled(), startSession() and endSession() calls.
C11_AtMostOneOpenSession ==
    Cardinality({i \in DOMAIN sessions : sessions[i].end_time = NULL}) <= 1

\* C12: the interactions rows are in the order their interactions were
\* accepted, whichever of the interval, threshold and manual flushes wrote
\* them; so of two interactions of one visit the one accepted first has the
\* earlier row.
C12_RowsInQueueOrder ==
    \A i \in 1 .. Len(interactions) - 1 :
        interactions[i].seq < interactions[i + 1].seq

\* C12 witness: after more than the threshold's worth of interactions and a
\* whole interval, a manual flush has written the last of them
C12_Witness ==
    /\ lastOp.op = "flush"
    /\ pendingInteractions = << >>
    /\ Len(interactions) > BATCH_THRESHOLD + 1
    /\ now > StartTime

\* C13: an accepted interaction is written within one batch interval: with
\* every due timer callback run, no queued interaction is older than
\* BATCH_INTERVAL.
C13_WrittenWithinInterval ==
    \A i \in DOMAIN pendingInteractions :
        now - pendingInteractions[i].timestamp <= BATCH_INTERVAL

\* the accepted interaction numbered s is among the rows getVisitInteractions
\* returns for the visit v
visible(s, v) ==
    \E i \in DOMAIN getVisitInteractions(interactions, v) :
        getVisitInteractions(interactions, v)[i].seq = s

C15_NoExceptionEscapes ==
    lastOp.op \in {"nav", "close", "switch", "interaction", "flush"}
        => ~lastOp.threw

\* a row that was inserted and is no longer there
deletedVisit(id) ==
    /\ id \in 1 .. sqliteSequence.page_visits
    /\ \A i \in DOMAIN pageVisits : pageVisits[i].id # id

deletedSession(id) ==
    /\ id \in 1 .. sqliteSequence.sessions
    /\ \A i \in DOMAIN sessions : sessions[i].id # id

\* C16: when deleteOldHistory(days) has returned, no interactions,
\* dom_snapshots, screenshots or scroll_events row refers to a deleted visit
\* and no page_visits, tab_events or workflow_cache row to a deleted session.
C16_NoDanglingRows ==
    lastOp.op = "deleteOldHistory"
        => /\ \A i \in DOMAIN interactions : ~deletedVisit(interactions[i].visit_id)
           /\ \A i \in DOMAIN domSnapshots : ~deletedVisit(domSnapshots[i].visit_id)
           /\ \A i \in DOMAIN screenshots : ~deletedVisit(screenshots[i].visit_id)
           /\ \A i \in DOMAIN scrollEvents : ~deletedVisit(scrollEvents[i].visit_id)
           /\ \A i \in DOMAIN pageVisits : ~deletedSession(pageVisits[i].session_id)
           /\ \A i \in DOMAIN tabEvents : ~deletedSession(tabEvents[i].session_id)
           /\ \A i \in DOMAIN workflowCache :
                 ~deletedSession(workflowCache[i].session_id)

\* a read's result is empty, zero or null
emptyResult(call, result) ==
    CASE call = "getSessionHistory" ->
             /\ result.session \in {<< >>, <<EmptySession>>}
             /\ result.visits = << >>
             /\ result.tabEvents = << >>
      [] call = "getVisitCount" -> result = 0
      [] OTHER -> result = << >>

\* C17: while db is not set, before the initialization completes or after
\* close(), a HistoryDatabase call leaves the store as it is; startSession
\* throws and no other call does; a read returns its empty, zero or null
\* result.
C17_UninitializedStore ==
    [][(~db /\ lastOp'.op \in WriteCalls \cup ReadCalls \cup
                    {"startSession", "endSession", "deleteOldHistory"})
         => /\ UNCHANGED <<dbVars, storeVars>>
            /\ lastOp'.threw <=> lastOp'.op = "startSession"
            /\ lastOp'.op \in ReadCalls
                  => emptyResult(lastOp'.op, lastOp'.result)]_vars

\* C18: with a model configured, analyzeRecentHistory called while the store
\* holds no visit throws "No history to analyze" and makes no generation
\* call.
C18_NoHistoryNoGeneration ==
    [][(lastOp'.op = "analyzeRecentHistory" /\ model /\ Len(pageVisits) = 0)
         => /\ lastOp'.threw
            /\ lastOp'.error = NoHistory
            /\ UNCHANGED <<generated, analyses, workflowCache>>]_vars

C18_Witness ==
    /\ lastOp.op = "analyzeRecentHistory"
    /\ model
    /\ db
    /\ sessions # << >>
    /\ Len(pageVisits) = 0
    /\ lastOp.error = NoHistory

\* the session of this id is stored and no visit belongs to it
emptySession(id) ==
    /\ db
    /\ \E i \in DOMAIN sessions : sessions[i].id = id
    /\ \A i \in DOMAIN pageVisits : pageVisits[i].session_id # id

\* C19: with a model configured, analyzeSession or streamWorkflowAnalysis
\* called for a stored session that has no visit throws "No history to
\* analyze", makes no generation call and writes no workflow_cache row.
C19_EmptySessionNothingToAnalyze ==
    [][(/\ lastOp'.op \in {"analyzeSession", "streamWorkflowAnalysis"}
        /\ model
        /\ emptySession(lastOp'.arg))
         => /\ lastOp'.threw
            /\ lastOp'.error = NoHistory
            /\ UNCHANGED <<generated, analyses, workflowCache>>]_vars

\* C20: without a model, analyzeSession, analyzeRecentHistory and
\* streamWorkflowAnalysis each throw "LLM model not initialized" and have
\* not read the store, called the generation capability or written the
\* cache.
C20_NotConfiguredFailsFirst ==
    [][(lastOp'.op \in AnalyzeCalls /\ ~model)
         => /\ lastOp'.threw
            /\ lastOp'.error = NotConfigured
            /\ ~lastOp'.read
            /\ UNCHANGED <<generated, analyses, workflowCache, dbVars>>]_vars

C20_Witness ==
    /\ lastOp.op \in AnalyzeCalls
    /\ ~model
    /\ db
    /\ Len(pageVisits) > 0
    /\ lastOp.error = NotConfigured

\* an analyzeSession(id) has returned its result in the step
analyzed(id) ==
    /\ analyses' # analyses
    /\ lastOp'.op = "generationSettles"
    /\ lastOp'.call = "analyzeSession"
    /\ lastOp'.arg = id
    /\ ~lastOp'.threw

\* an analyzeSession has thrown in the step, at once or after its generation
failedAnalysis ==
    \/ lastOp' # lastOp /\ lastOp'.op = "analyzeSession" /\ lastOp'.threw
    \/ /\ analyses' # analyses
       /\ lastOp'.op = "generationSettles"
       /\ lastOp'.call = "analyzeSession"
       /\ lastOp'.threw

\* C21: after an analyzeSession(s) that succeeded getCachedWorkflow(s)
\* returns its result; a failed analysis or the analysis of another session
\* leaves what getCachedWorkflow(s) returns as it was; a cache row is written
\* by a successful analysis of its session only.
C21_CachedIsMostRecent ==
    [][\A id \in 1 .. MaxSessions + 1 :
          /\ analyzed(id) => getCachedWorkflow(id)' = {lastOp'.result}
          /\ (failedAnalysis \/ \E other \in 1 .. MaxSessions + 1 :
                                    other # id /\ analyzed(other))
                => getCachedWorkflow(id)' = getCachedWorkflow(id)
          /\ (\E i \in DOMAIN workflowCache' :
                  /\ i \notin DOMAIN workflowCache
                  /\ workflowCache'[i].session_id = id)
                => analyzed(id)]_vars

\* every cache row of the session was written before this instant
cachedEarlier(id) ==
    \A i \in DOMAIN workflowCache :
        workflowCache[i].session_id = id => workflowCache[i].created_at < now

\* C21 amended: while the store is initialized, after an analyzeSession(s)
\* that succeeded its result is one getCachedWorkflow(s) can return, and the
\* only one when every earlier cache row of s is of an earlier millisecond; a
\* failed analysis or the analysis of another session leaves what
\* getCachedWorkflow(s) returns as it was; a cache row is written by a
\* successful analysis of its session only.
C21_CachedIsLatestByCreatedAt ==
    [][\A id \in 1 .. MaxSessions + 1 :
          /\ (analyzed(id) /\ db)
                => /\ lastOp'.result \in getCachedWorkflow(id)'
                   /\ cachedEarlier(id)
                         => getCachedWorkflow(id)' = {lastOp'.result}
          /\ (failedAnalysis \/ \E other \in 1 .. MaxSessions + 1 :
                                    other # id /\ analyzed(other))
                => getCachedWorkflow(id)' = getCachedWorkflow(id)
          /\ (\E i \in DOMAIN workflowCache' :
                  /\ i \notin DOMAIN workflowCache
                  /\ workflowCache'[i].session_id = id)
                => analyzed(id)]_vars

C21_Witness ==
    /\ db
    /\ lastOp.op = "generationSettles"
    /\ lastOp.call = "analyzeSession"
    /\ ~lastOp.threw
    /\ Len(workflowCache) = 2
    /\ workflowCache[1].session_id = lastOp.arg
    /\ workflowCache[2].session_id = lastOp.arg
    /\ workflowCache[1].created_at < workflowCache[2].created_at
    /\ workflowCache[1].workflow_data # workflowCache[2].workflow_data
    /\ getCachedWorkflow(lastOp.arg) = {lastOp.result}

C23_CleanShutdownKeepsAll ==
    (lastOp.op = "closeDatabase" /\ lastOp.after = "stop")
        => /\ dbFile # << >>
           /\ \A n \in 1 .. accepted :
                  \E i \in DOMAIN dbFile[1].interactions :
                      dbFile[1].interactions[i].seq = n
           /\ \A id \in 1 .. sqliteSequence.page_visits :
                  \E i \in DOMAIN dbFile[1].page_visits :
                      dbFile[1].page_visits[i].id = id

\* C24: when the handling of a navigation of a tab to a URL other than the
\* URL of the tab's open visit ends, or the handling of the tab's close, the
\* row of that visit has a duration.
C24_OpenVisitStamped ==
    [][\A t \in Tabs :
          (/\ now' = now
           /\ t \in DOMAIN visitTrackers
           /\ \/ /\ lastOp'.op = "nav"
                 /\ lastOp'.tab = t
                 /\ lastOp'.url # visitTrackers[t].url
              \/ /\ lastOp'.op = "close"
                 /\ lastOp'.tab = t
                 /\ t \notin openTabs')
            => \A i \in DOMAIN pageVisits' :
                   pageVisits'[i].id = visitTrackers[t].visitId
                       => pageVisits'[i].duration # NoDuration]_vars

\* the rows of the captures of a kind
captures(kind) == IF kind = "screenshot" THEN screenshots ELSE domSnapshots

\* C25: a screenshot or snapshot capture for visit v that the throttle
\* skipped has a stored capture of its kind for v that is younger than the
\* throttle window.
C25_ThrottledByOwnCapture ==
    (lastOp.op = "timeout" /\ lastOp.throttled)
        => \E i \in DOMAIN captures(lastOp.kind) :
               /\ captures(lastOp.kind)[i].visit_id = lastOp.visitId
               /\ now - captures(lastOp.kind)[i].timestamp < throttle(lastOp.kind)

\* C26: when generateEmbedding(v) has run to its end, the embeddings table
\* has a row for v if and only if the index holds a point for v.
C26_RecordIffVector ==
    lastOp.op = "embedded"
        => (hasEmbedding(embeddings, lastOp.visitId)
                <=> hasPoint(index, lastOp.visitId))

\* C27: at most one capture of a tab is suspended at its await, and no
\* navigation or close of a tab is handled while a capture of the tab is
\* suspended.
C27_CapturesDoNotInterleave ==
    /\ \A c1 \in inflight, c2 \in inflight : c1.tab = c2.tab => c1 = c2
    /\ lastOp.op \in {"nav", "close"}
           => \A c \in inflight : c.tab # lastOp.tab

\* C28: the visit_id of every interactions row is the id of exactly one
\* page_visits row.
C28_InteractionsBelongToVisits ==
    \A i \in DOMAIN interactions :
        Cardinality({j \in DOMAIN pageVisits :
                        pageVisits[j].id = interactions[i].visit_id}) = 1

\* C29: visitTrackers has entries for open tabs only, and when
\* handleTabClose(t) has returned for a tab t that had an entry,
\* getCurrentVisitId(t) is null and tab_events holds exactly one "closed"
\* event of t.
C29_TrackersOfOpenTabs ==
    [][/\ DOMAIN visitTrackers' \subseteq openTabs'
       /\ \A t \in DOMAIN visitTrackers :
              (lastOp'.op = "close" /\ lastOp'.tab = t /\ t \notin openTabs')
                  => /\ getCurrentVisitId(t)' = NULL
                     /\ Cardinality({i \in DOMAIN tabEvents' :
                                        /\ tabEvents'[i].tab_id = t
                                        /\ tabEvents'[i].action = "closed"}) = 1]_vars

\* the timeouts of a visit that are still to fire
pendingOf(visitId, kinds) ==
    {tm \in timeouts : tm.visitId = visitId /\ tm.kind \in kinds}

\* C30: a navigation that creates a visit schedules exactly three timeouts
\* for it, the screenshot after 1 s, the DOM snapshot after 1.5 s and the
\* embedding after 2 s, and they fire in that order; a navigation to the
\* tracker's own URL or to an excluded domain schedules none.
C30_ThreeCapturesInOrder ==
    [][/\ (lastOp'.op = "nav" /\ lastOp' # lastOp /\ lastOp'.made = 1)
              => LET visitId == sqliteSequence'.page_visits
                     t == lastOp'.tab
                 IN /\ timeouts \subseteq timeouts'
                    /\ timeouts' \ timeouts =
                         {[kind |-> "screenshot", tab |-> t, visitId |-> visitId,
                           due |-> now + 1000],
                          [kind |-> "snapshot", tab |-> t, visitId |-> visitId,
                           due |-> now + 1500],
                          [kind |-> "embedding", tab |-> t, visitId |-> visitId,
                           due |-> now + 2000]}
                    /\ Cardinality(timeouts' \ timeouts) = 3
       /\ (/\ lastOp'.op = "nav" /\ lastOp' # lastOp
           /\ \/ isDuplicate(lastOp'.tab, lastOp'.url)
              \/ isExcludedDomain(lastOp'.url))
              => timeouts' = timeouts
       /\ (lastOp'.op = "timeout" /\ timeouts' # timeouts)
              => /\ lastOp'.kind = "snapshot"
                     => pendingOf(lastOp'.visitId, {"screenshot"}) = {}
                 /\ lastOp'.kind = "embedding"
                     => pendingOf(lastOp'.visitId, {"screenshot", "snapshot"}) = {}]_vars

\* all three captures of a visit have fired, the embedding last
C30_Witness ==
    /\ lastOp.op = "timeout"
    /\ lastOp.kind = "embedding"
    /\ \E i \in DOMAIN pageVisits : pageVisits[i].id = lastOp.visitId
    /\ pendingOf(lastOp.visitId, {"screenshot", "snapshot", "embedding"}) = {}

\* a capture of another tab than t is suspended on its awaited call
suspendedBeside(t) == \E c \in inflight : c.tab # t

\* C31: while a capture of one tab is suspended on its awaited call, a
\* navigation of another tab is recorded as a visit and a batch timer's
\* callback writes the whole queue.
C31_SuspendedCaptureBlocksNothing ==
    [][/\ \A t \in AllTabs :
              (/\ lastOp'.op = "nav" /\ lastOp' # lastOp /\ lastOp'.tab = t
               /\ suspendedBeside(t)
               /\ db /\ tracking /\ t \in trackedTabs
               /\ ~isExcludedDomain(lastOp'.url)
               /\ ~(t \in DOMAIN visitTrackers
                    /\ visitTrackers[t].url = lastOp'.url))
                  => /\ Len(pageVisits') = Len(pageVisits) + 1
                     /\ pageVisits'[Len(pageVisits')].tab_id = t
                     /\ pageVisits'[Len(pageVisits')].url = lastOp'.url
       /\ (lastOp'.op = "batchTimer" /\ intervals' # intervals /\ inflight # {} /\ db)
              => /\ pendingInteractions' = << >>
                 /\ Len(interactions') =
                        Len(interactions) + Len(pendingInteractions)]_vars

\* a capture of t1 has been suspended for a while; since it began t2 has
\* navigated and the batch timer has written the queue
C31_Witness ==
    /\ lastOp.op = "batchTimer"
    /\ lastOp.wrote >= 1
    /\ \E c \in inflight :
           /\ c.tab = "t1"
           /\ c.started < now
           /\ \E i \in DOMAIN pageVisits :
                  /\ pageVisits[i].tab_id = "t2"
                  /\ pageVisits[i].timestamp > c.started

\* the URL of the visit a capture row is stored under
visitUrls(visitId) ==
    {pageVisits[j].url : j \in {k \in DOMAIN pageVisits : pageVisits[k].id = visitId}}

\* C32: every screenshots and dom_snapshots row of visit v holds the picture
\* or the document of the page of v, not of a page the tab showed later.
C32_CapturesShowTheirVisit ==
    /\ \A i \in DOMAIN screenshots :
           \E url \in visitUrls(screenshots[i].visit_id) :
               screenshots[i].image_data = screenshot(url)
    /\ \A i \in DOMAIN domSnapshots :
           \E url \in visitUrls(domSnapshots[i].visit_id) :
               domSnapshots[i].html = substring(pageHtml(url), HTML_CAP)

\* C33: no two interactions rows are of the same accepted interaction, also
\* after a batch write that threw part-way and the flushes that followed it.
C33_WrittenAtMostOnce ==
    \A i, j \in DOMAIN interactions :
        interactions[i].seq = interactions[j].seq => i = j

\* C34: from the return of setEnabled(false) until tracking is enabled
\* again, no row is written to page_visits, interactions, tab_events,
\* screenshots, dom_snapshots or embeddings.
C34_DisabledWritesNothing ==
    [][~enabled => UNCHANGED <<pageVisits, interactions, tabEvents,
                               screenshots, domSnapshots, embeddings>>]_vars

\* the ids of the visits of tab t
visitsOf(t) ==
    {pageVisits[j].id : j \in {k \in DOMAIN pageVisits : pageVisits[k].tab_id = t}}

\* the rows of a table that belong to the visits of tab t
rowsOf(rows, t) == SelectSeq(rows, LAMBDA r : r.visit_id \in visitsOf(t))

\* C35: once tab t is closed, the screenshots, dom_snapshots and embeddings
\* rows of the visits of t and their points in the index stay as they are.
C35_ClosedTabIsNotCaptured ==
    [][\A t \in AllTabs \ openTabs :
           /\ rowsOf(screenshots', t) = rowsOf(screenshots, t)
           /\ rowsOf(domSnapshots', t) = rowsOf(domSnapshots, t)
           /\ rowsOf(embeddings', t) = rowsOf(embeddings, t)
           /\ \A v \in visitsOf(t) :
                  /\ hasPoint(index', v) = hasPoint(index, v)
                  /\ v \in DOMAIN index.points => index'.points[v] = index.points[v]]_vars

\* C36: every page_visits row of a session that stop() has ended has a
\* duration.
C36_EndedSessionHasNoOpenVisit ==
    \A i \in DOMAIN sessions :
        sessions[i].end_time # NULL
            => \A j \in DOMAIN pageVisits :
                   pageVisits[j].session_id = sessions[i].id
                       => pageVisits[j].duration # NoDuration

\* C37: at most one batch interval timer is running, and one is running
\* exactly when the tracker holds a session id.
C37_OneBatchTimerPerSession ==
    /\ Cardinality(intervals) <= 1
    /\ intervals # {} <=> sessionId # NULL

\* C38: a database that close() has returned from is not opened again: the
\* step after close() leaves db null, and with it the save timer stopped.
C38_ClosedStaysClosed ==
    [][lastOp.op = "closeDatabase" => ~db']_vars

\* C39: reorderTabs(ids) returns true only when ids is a permutation of the
\* keys of tabsMap, and whatever it returns the window holds the same tabs
\* after it as before.
C39_ReorderKeepsTheTabs ==
    [][(lastOp'.op = "reorder" /\ lastOp'.before = tabsMap)
           => /\ lastOp'.result
                  => /\ keys(lastOp'.ids) = keys(tabsMap)
                     /\ Len(lastOp'.ids) = Len(tabsMap)
                     /\ \A i, j \in DOMAIN lastOp'.ids :
                            lastOp'.ids[i] = lastOp'.ids[j] => i = j
              /\ keys(tabsMap') = keys(tabsMap)]_vars

\* C10: an addVector call for a new label on an index that holds
\* MAX_ELEMENTS points fails in a way its caller sees.
C10_CapacityFailureVisible ==
    (lastOp.op = "addVector" /\ lastOp.full) => lastOp.outcome = "rejected"

====
